---- MODULE Spec2Model ----
(***************************************************************************)
(* Verification model of the deterministic core of the algorithm-analysis  *)
(* repository: the complexity resolvers of app/analysis/tools (Master      *)
(* Theorem, substitution, recursion tree, summation) and the structural    *)
(* analyzers of app/analysis/tools/ast_analyzer.py.                        *)
(*                                                                         *)
(* Texts are strings; the regular expressions of the resolvers are matched *)
(* character by character.                                                 *)
(* A Python exception that leaves a function is the record Raised(name).   *)
(***************************************************************************)
EXTENDS Integers, Sequences, FiniteSets, TLC

VARIABLES
    text,        \* the text given to the resolvers
    subroutine,  \* the Subroutine node given to the structural analyzers
    param,       \* the param_name given to analyze_recursion_parameter
    called,      \* the function called last, "none" before the first call
    result,      \* what that call returned, or Raised(exception)
    tree,        \* the lark parse tree given to the transformer
    ast,         \* the objects the transformer built and the root it returned
    shared_ast,  \* the subroutines of the AST that concurrent analyzer calls share
    calls,       \* the analyzer call of each thread: its arguments, its locals and what it returned
    max_nesting, \* the max_nesting variables of the analyze_loops invocations
    agent,       \* one run_with_tool_loop: its messages, its iteration and what it returned
    extraction,  \* the answer of the extraction agent given to the orchestrator
    cache,       \* the rows of the table algorithms_cache
    requests     \* the analyze_pseudocode_internal call of each request thread

\* what the stages after the parser, the analyzers and the resolvers work on
others == <<shared_ast, calls, max_nesting, agent, extraction, cache, requests>>

vars == <<text, subroutine, param, called, result, tree, ast, others>>

\* no analyzer call, agent run, orchestration or request is in progress
Idle ==
    /\ shared_ast = <<>>
    /\ calls = <<>>
    /\ max_nesting = <<>>
    /\ agent = <<>>
    /\ extraction = <<>>
    /\ cache = <<>>
    /\ requests = <<>>

(***************************************************************************)
(* Bounds of the explored inputs.                                          *)
(***************************************************************************)
\* largest explicit coefficient a written in a recurrence text
MaxA == 9
\* largest divisor b written in a recurrence text
MaxB == 4
\* largest decrement k written in a linear recurrence text
MaxK == 3
\* deepest nesting of loops and conditionals in a generated subroutine body
MaxDepth == 2
\* longest generated subroutine body made of several top-level statements
MaxBody == 2

(***************************************************************************)
(* Python values.                                                          *)
(***************************************************************************)
\* None where a str is expected
None == "None"

\* None where a dict or an object is expected
NoneRec == [none |-> TRUE]

IsNone(r) == "none" \in DOMAIN r

\* None where a number is expected (the numbers concerned are never negative)
NoNumber == -1

Raised(exc) == [raised |-> exc]

\* F(v) with v evaluated once, like a local variable assigned in the code
Let(v, F(_)) == CHOOSE r \in {F(x) : x \in {v}} : TRUE

IsRaised(r) == "raised" \in DOMAIN r

(***************************************************************************)
(* Strings: indexing, str.strip, str.lower, str.replace, int(), str(int).  *)
(***************************************************************************)
\* the character of s at position p (from 1)
Char(s, p) == SubSeq(s, p, p)

Digits == "0123456789"

IsDigit(ch) == \E d \in 1..10 : Char(Digits, d) = ch

IsSpace(ch) == ch = " "

UpperLetters == "ABCDEFGHIJKLMNOPQRSTUVWXYZ"

LowerLetters == "abcdefghijklmnopqrstuvwxyz"

IsUpper(ch) == \E i \in 1..26 : Char(UpperLetters, i) = ch

IsLower(ch) == \E i \in 1..26 : Char(LowerLetters, i) = ch

\* \w of the re module
IsWord(ch) == IsDigit(ch) \/ IsUpper(ch) \/ IsLower(ch) \/ ch = "_"

DigitValue(ch) == (CHOOSE d \in 1..10 : Char(Digits, d) = ch) - 1

\* int(s) for a string of decimal digits
RECURSIVE ParseInt(_)
ParseInt(s) == IF s = "" THEN 0 ELSE 10 * ParseInt(SubSeq(s, 1, Len(s) - 1)) + DigitValue(Char(s, Len(s)))

RECURSIVE LStrip(_)
LStrip(s) == IF s # "" /\ IsSpace(Char(s, 1)) THEN LStrip(SubSeq(s, 2, Len(s))) ELSE s

RECURSIVE RStrip(_)
RStrip(s) == IF s # "" /\ IsSpace(Char(s, Len(s))) THEN RStrip(SubSeq(s, 1, Len(s) - 1)) ELSE s

Strip(s) == RStrip(LStrip(s))

LowerChar(ch) == IF IsUpper(ch) THEN Char(LowerLetters, CHOOSE i \in 1..26 : Char(UpperLetters, i) = ch) ELSE ch

RECURSIVE Lower(_)
Lower(s) == IF s = "" THEN "" ELSE LowerChar(Char(s, 1)) \o Lower(SubSeq(s, 2, Len(s)))

IsPrefixAt(s, p, old) == /\ p + Len(old) - 1 <= Len(s)
                         /\ SubSeq(s, p, p + Len(old) - 1) = old

\* s.replace(old, new), left to right, non-overlapping (old is not empty)
RECURSIVE ReplaceFrom(_, _, _, _)
ReplaceFrom(s, p, old, new) ==
    IF p > Len(s) THEN ""
    ELSE IF IsPrefixAt(s, p, old) THEN new \o ReplaceFrom(s, p + Len(old), old, new)
    ELSE Char(s, p) \o ReplaceFrom(s, p + 1, old, new)

Replace(s, old, new) == ReplaceFrom(s, 1, old, new)

\* `old in s` for strings
Contains(s, old) == \E p \in 1..(Len(s) + 1) : IsPrefixAt(s, p, old)

(***************************************************************************)
(* The part of Python's re module the resolvers use.  A pattern is a       *)
(* sequence of items; an item is a literal text (k = "str") or a character *)
(* class k with a quantifier q ("?", "*", "+" greedy, "+?" lazy) and the   *)
(* number g of the capturing group the item is wrapped in (0 for none).    *)
(***************************************************************************)
Lit(c) == [k |-> "str", ch |-> c, q |-> "1", g |-> 0]

Opt(c) == [k |-> "lit", ch |-> c, q |-> "?", g |-> 0]

LitSeq(s) == <<Lit(s)>>

SpaceStar == [k |-> "space", ch |-> "", q |-> "*", g |-> 0]

DigitsGroup(n) == [k |-> "digit", ch |-> "", q |-> "+", g |-> n]

AnyLazyGroup(n) == [k |-> "any", ch |-> "", q |-> "+?", g |-> n]

AnyGreedyGroup(n) == [k |-> "any", ch |-> "", q |-> "+", g |-> n]

NotCharGroup(c, n) == [k |-> "not", ch |-> c, q |-> "+", g |-> n]

WordGroup(n) == [k |-> "word", ch |-> "", q |-> "+", g |-> n]

ClassMatch(it, ch) ==
    CASE it.k = "lit" -> ch = it.ch
      [] it.k = "digit" -> IsDigit(ch)
      [] it.k = "space" -> IsSpace(ch)
      [] it.k = "word" -> IsWord(ch)
      [] it.k = "not" -> ch # it.ch
      [] OTHER -> TRUE

\* number of consecutive characters of s from position p that are in the class
RECURSIVE Run(_, _, _)
Run(it, s, p) == IF p <= Len(s) /\ ClassMatch(it, Char(s, p)) THEN 1 + Run(it, s, p + 1) ELSE 0

NoMatch == [ok |-> FALSE]

NoCaps == <<"", "", "">>

\* the smallest and the largest number of a set of numbers
Least(S) == CHOOSE n \in S : \A m \in S : n <= m

Greatest(S) == CHOOSE n \in S : \A m \in S : m <= n

\* backtracking match of items i.. of re at position p of s: the first
\* success in the priority order of the quantifiers (a greedy item tries
\* the longest run first, a lazy one the shortest)
RECURSIVE MatchHere(_, _, _, _, _)
MatchHere(re, s, i, p, caps) ==
    IF i > Len(re) THEN [ok |-> TRUE, start |-> 0, end |-> p, caps |-> caps]
    ELSE IF re[i].k = "str" THEN
        (IF IsPrefixAt(s, p, re[i].ch) THEN MatchHere(re, s, i + 1, p + Len(re[i].ch), caps) ELSE NoMatch)
    ELSE
    LET it == re[i]
        run == Run(it, s, p)
        lo == IF it.q \in {"+", "+?"} THEN 1 ELSE 0
        hi == IF it.q = "?" THEN (IF run > 1 THEN 1 ELSE run) ELSE run
        caps2(n) == IF it.g > 0 THEN [caps EXCEPT ![it.g] = SubSeq(s, p, p + n - 1)] ELSE caps
    IN  Let([n \in lo..hi |-> MatchHere(re, s, i + 1, p + n, caps2(n))], LAMBDA tries :
            LET good == {n \in lo..hi : tries[n].ok}
            IN  IF good = {} THEN NoMatch
                ELSE IF it.q = "+?" THEN tries[Least(good)]
                ELSE tries[Greatest(good)])

\* re.search(re, s): the match at the leftmost position that has one
Search(re, s) ==
    Let(<<re, s>>, LAMBDA a :
    Let([p \in 1..(Len(a[2]) + 1) |-> MatchHere(a[1], a[2], 1, p, NoCaps)], LAMBDA tries :
        LET good == {p \in 1..(Len(a[2]) + 1) : tries[p].ok}
        IN  IF good = {} THEN NoMatch ELSE [tries[Least(good)] EXCEPT !.start = Least(good)]))

\* re.sub(re, repl, s) from position p on, where repl is built from the
\* groups of each match
RECURSIVE SubFrom(_, _, _, _)
SubFrom(re, Repl(_), s, p) ==
    IF p > Len(s) THEN ""
    ELSE LET r == MatchHere(re, s, 1, p, NoCaps)
         IN  IF r.ok THEN Repl(r.caps) \o SubFrom(re, Repl, s, r.end)
             ELSE Char(s, p) \o SubFrom(re, Repl, s, p + 1)

\* re.sub(re, repl, s)
Sub(re, Repl(_), s) == Let(<<re, s>>, LAMBDA a : SubFrom(a[1], Repl, a[2], 1))

(***************************************************************************)
(* math.log and float formatting.  Floats are fixed-point numbers with     *)
(* five decimals: the integer x stands for x / Scale.  Natural logarithms  *)
(* are kept with seven decimals, so that their quotient is right to five.  *)
(***************************************************************************)
Scale == 100000

ScaleDigits == 5

\* round(math.log(x) * 10^7) for x = 1..20
LnTable == <<0, 6931472, 10986123, 13862944, 16094379, 17917595, 19459101, 20794415, 21972246, 23025851,
             23978953, 24849066, 25649494, 26390573, 27080502, 27725887, 28332133, 28903718, 29444390, 29957323>>

\* x ** n for integers, n >= 0 (0 ** 0 is 1)
RECURSIVE Pow(_, _)
Pow(x, n) == IF n = 0 THEN 1 ELSE x * Pow(x, n - 1)

\* floor(num / den * 10^digits) by long division
RECURSIVE LongDiv(_, _, _)
LongDiv(num, den, digits) ==
    IF digits = 0 THEN num \div den
    ELSE (num \div den) * Pow(10, digits) + LongDiv((num % den) * 10, den, digits - 1)

\* math.log(x): "ValueError" for x = 0 (math domain error)
MathLog(x) == IF x = 0 THEN Raised("ValueError") ELSE [value |-> LnTable[x]]

\* the float x rounded to two decimals, in hundredths
Hundredths(x) == (x + (Scale \div 200)) \div (Scale \div 100)

TwoDigits(n) == Char(Digits, (n \div 10) + 1) \o Char(Digits, (n % 10) + 1)

\* f"{x:.2f}"
Format2f(x) == ToString(Hundredths(x) \div 100) \o "." \o TwoDigits(Hundredths(x) % 100)

\* repr(round(x, 2)): the shortest decimal, with at least one decimal digit
ReprRound2(x) ==
    LET h == Hundredths(x)
        frac == IF h % 10 = 0 THEN Char(Digits, ((h % 100) \div 10) + 1) ELSE TwoDigits(h % 100)
    IN  ToString(h \div 100) \o "." \o frac

(***************************************************************************)
(* master_theorem.py                                                       *)
(***************************************************************************)
TofN == "T(n)"

\* r'T\(n\)\s*=\s*(\d+)\s*[*]?\s*T\(n/(\d+)\)\s*\+\s*O\((.+?)\)'
pattern1 ==
    LitSeq(TofN) \o <<SpaceStar, Lit("="), SpaceStar, DigitsGroup(1), SpaceStar, Opt("*"), SpaceStar>>
        \o LitSeq("T(n/") \o <<DigitsGroup(2), Lit(")"), SpaceStar, Lit("+"), SpaceStar>>
        \o <<Lit("O"), Lit("("), AnyLazyGroup(3), Lit(")")>>

\* r'T\(n\)\s*=\s*T\(n/(\d+)\)\s*\+\s*O\((.+?)\)'
pattern2 ==
    LitSeq(TofN) \o <<SpaceStar, Lit("="), SpaceStar>>
        \o LitSeq("T(n/") \o <<DigitsGroup(1), Lit(")"), SpaceStar, Lit("+"), SpaceStar>>
        \o <<Lit("O"), Lit("("), AnyLazyGroup(2), Lit(")")>>

\* r'T\(n\)\s*=\s*(\d+)\s*[*]?\s*T\(n/(\d+)\)\s*\+\s*(.+)'
pattern3 ==
    LitSeq(TofN) \o <<SpaceStar, Lit("="), SpaceStar, DigitsGroup(1), SpaceStar, Opt("*"), SpaceStar>>
        \o LitSeq("T(n/") \o <<DigitsGroup(2), Lit(")"), SpaceStar, Lit("+"), SpaceStar>>
        \o <<AnyGreedyGroup(3)>>

\* r'T\(n\)\s*=\s*T\(n/(\d+)\)\s*\+\s*(.+)'
pattern4 ==
    LitSeq(TofN) \o <<SpaceStar, Lit("="), SpaceStar>>
        \o LitSeq("T(n/") \o <<DigitsGroup(1), Lit(")"), SpaceStar, Lit("+"), SpaceStar>>
        \o <<AnyGreedyGroup(2)>>

\* the dict {'a', 'b', 'f_n'} or None
extract_recurrence_params(recurrence) ==
    Let(Strip(recurrence), LAMBDA s :
    Let(Search(pattern1, s), LAMBDA m1 :
        IF m1.ok THEN [a |-> ParseInt(m1.caps[1]), b |-> ParseInt(m1.caps[2]), f_n |-> Strip(m1.caps[3])]
        ELSE
    Let(Search(pattern2, s), LAMBDA m2 :
        IF m2.ok THEN [a |-> 1, b |-> ParseInt(m2.caps[1]), f_n |-> Strip(m2.caps[2])]
        ELSE
    Let(Search(pattern3, s), LAMBDA m3 :
        IF m3.ok THEN [a |-> ParseInt(m3.caps[1]), b |-> ParseInt(m3.caps[2]), f_n |-> Strip(m3.caps[3])]
        ELSE
    Let(Search(pattern4, s), LAMBDA m4 :
        IF m4.ok THEN [a |-> 1, b |-> ParseInt(m4.caps[1]), f_n |-> Strip(m4.caps[2])]
        ELSE NoneRec)))))

\* function_orders.get(key, None), the orders as floats
function_orders(key) ==
    CASE key = "1" -> 0
      [] key = "log n" -> Scale \div 2
      [] key = "n" -> Scale
      [] key = "n log n" -> (11 * Scale) \div 10
      [] key = "n²" -> 2 * Scale
      [] key = "n^2" -> 2 * Scale
      [] key = "n³" -> 3 * Scale
      [] key = "n^3" -> 3 * Scale
      [] OTHER -> NoNumber

\* r'n\^?(\d+)'
exp_pattern == <<Lit("n"), Opt("^"), DigitsGroup(1)>>

\* epsilon = 0.01
epsilon == Scale \div 100

Abs(x) == IF x < 0 THEN -x ELSE x

\* the order of f(n) that compare_functions works with, None if it has none
f_order_of(f_n) ==
    Let(function_orders(Lower(f_n)), LAMBDA looked :
        IF looked # NoNumber THEN looked
        ELSE Let(Search(exp_pattern, f_n), LAMBDA exp_match :
                 IF exp_match.ok THEN ParseInt(exp_match.caps[1]) * Scale ELSE NoNumber))

\* compare_functions with the tolerance added where it is subtracted
compare_functions_wide(f_n, n_log_b_a) ==
    Let(f_order_of(f_n), LAMBDA f_order :
        IF f_order = NoNumber THEN "case2"
        ELSE IF f_order < n_log_b_a + epsilon THEN "case1"
        ELSE IF Abs(f_order - n_log_b_a) < epsilon THEN "case2"
        ELSE "case3")

\* compare_functions answering case 3 when the order of f(n) is not known
compare_functions_unknown_above(f_n, n_log_b_a) ==
    Let(f_order_of(f_n), LAMBDA f_order :
        IF f_order = NoNumber THEN "case3"
        ELSE IF f_order < n_log_b_a - epsilon THEN "case1"
        ELSE IF Abs(f_order - n_log_b_a) < epsilon THEN "case2"
        ELSE "case3")

compare_functions(f_n, n_log_b_a) ==
    Let(f_order_of(f_n), LAMBDA f_order :
        IF f_order = NoNumber THEN "case2"
        ELSE IF f_order < n_log_b_a - epsilon THEN "case1"
        ELSE IF Abs(f_order - n_log_b_a) < epsilon THEN "case2"
        ELSE "case3")

\* math.log(b) / math.log(a): the operands of the division swapped
log_ratio_swapped(a, b) ==
    LET la == MathLog(a)
        lb == MathLog(b)
    IN  IF IsRaised(lb) THEN lb
        ELSE IF IsRaised(la) THEN la
        ELSE IF la.value = 0 THEN Raised("ZeroDivisionError")
        ELSE [value |-> LongDiv(lb.value, la.value, ScaleDigits)]

\* math.log(a) / math.log(b); the numerator is evaluated first
log_ratio(a, b) ==
    LET la == MathLog(a)
        lb == MathLog(b)
    IN  IF IsRaised(la) THEN la
        ELSE IF IsRaised(lb) THEN lb
        ELSE IF lb.value = 0 THEN Raised("ZeroDivisionError")
        ELSE [value |-> LongDiv(la.value, lb.value, ScaleDigits)]

master_error == "No se pudo parsear la recurrencia. Debe ser de la forma T(n) = aT(n/b) + O(f(n))"

apply_master_theorem(recurrence) ==
    Let(extract_recurrence_params(recurrence), LAMBDA params :
        IF IsNone(params)
        THEN [success |-> FALSE, error |-> master_error, recurrence |-> recurrence]
        ELSE
        Let(log_ratio(params.a, params.b), LAMBDA ratio :
            IF IsRaised(ratio) THEN ratio
            ELSE
            Let(compare_functions(params.f_n, ratio.value), LAMBDA case :
            LET a == params.a
                b == params.b
                f_n == params.f_n
                log_b_a == ratio.value
                fmt == Format2f(log_b_a)
                sa == ToString(a)
                sb == ToString(b)
                c1 == Replace("n^" \o Format2f(log_b_a), ".00", "")
                c2 == IF log_b_a = Scale THEN "n log n"
                      ELSE Replace("n^" \o Format2f(log_b_a) \o " log n",
                                        ".00", "")
            IN  IF case = "case1" THEN
                    [success |-> TRUE, case |-> 1, a |-> a, b |-> b, f_n |-> f_n,
                     log_b_a |-> ReprRound2(log_b_a), complexity |-> c1,
                     explanation |-> "Caso 1: f(n) = O(" \o f_n \o ") < n^(log_" \o sb \o "(" \o sa \o ")) = n^"
                                     \o fmt \o ". Por lo tanto, T(n) = Θ(" \o c1 \o ")"]
                ELSE IF case = "case2" THEN
                    [success |-> TRUE, case |-> 2, a |-> a, b |-> b, f_n |-> f_n,
                     log_b_a |-> ReprRound2(log_b_a), complexity |-> c2,
                     explanation |-> "Caso 2: f(n) = Θ(" \o f_n \o ") = Θ(n^(log_" \o sb \o "(" \o sa
                                     \o "))). Por lo tanto, T(n) = Θ(" \o c2 \o ")"]
                ELSE
                    [success |-> TRUE, case |-> 3, a |-> a, b |-> b, f_n |-> f_n,
                     log_b_a |-> ReprRound2(log_b_a), complexity |-> f_n,
                     explanation |-> "Caso 3: f(n) = Ω(" \o f_n \o ") > n^(log_" \o sb \o "(" \o sa \o ")) = n^"
                                     \o fmt \o ". Por lo tanto, T(n) = Θ(" \o f_n \o ")"])))

(***************************************************************************)
(* substitution.py                                                         *)
(***************************************************************************)
\* r'T\(n\)\s*=\s*T\(n\s*-\s*(\d+)\)\s*\+\s*O\((.+?)\)'
linear_pattern ==
    LitSeq(TofN) \o <<SpaceStar, Lit("="), SpaceStar>> \o LitSeq("T(n")
        \o <<SpaceStar, Lit("-"), SpaceStar, DigitsGroup(1), Lit(")"), SpaceStar, Lit("+"), SpaceStar>>
        \o <<Lit("O"), Lit("("), AnyLazyGroup(2), Lit(")")>>

\* the dict {'decrement', 'cost'} or None
extract_linear_recurrence(recurrence) ==
    Let(Search(linear_pattern, recurrence), LAMBDA m :
        IF ~m.ok THEN NoneRec
        ELSE [decrement |-> ParseInt(m.caps[1]), cost |-> Strip(m.caps[2])])

\* the list of steps: the recurrence itself, then one entry for i = 1..steps-1
generate_substitution_steps(decrement, cost, steps) ==
    LET first == "T(n) = T(n-" \o ToString(decrement) \o ") + " \o cost
        accumulated(i) == IF cost = "1" THEN ToString(i) \o "·c" ELSE ToString(i) \o "·" \o cost
        entry(i) == "T(n) = T(n-" \o ToString(decrement * i) \o ") + " \o accumulated(i)
    IN  <<first>> \o [i \in 1..(steps - 1) |-> entry(i)]

determine_pattern(decrement, cost) ==
    IF cost = "1" THEN "T(n) = T(0) + (n/" \o ToString(decrement) \o ")·c"
    ELSE "T(n) = T(0) + (n/" \o ToString(decrement) \o ")·" \o cost

calculate_complexity_from_pattern(decrement, cost) ==
    LET levels == IF decrement > 1 THEN "n/" \o ToString(decrement) ELSE "n"
    IN  IF cost = "1" THEN "O(n)"
        ELSE IF cost = "n" THEN "O(n²)"
        ELSE IF cost = "log n" THEN "O(n log n)"
        ELSE "O(" \o levels \o " × " \o cost \o ")"

\* "\n".join(lines)
RECURSIVE JoinLines(_)
JoinLines(lines) ==
    IF lines = <<>> THEN ""
    ELSE IF Len(lines) = 1 THEN lines[1]
    ELSE lines[1] \o "\n" \o JoinLines(Tail(lines))

substitution_error == "No se pudo parsear la recurrencia. Debe ser lineal: T(n) = T(n-k) + O(f(n))"

solve_by_substitution(recurrence) ==
    Let(extract_linear_recurrence(recurrence), LAMBDA params :
        IF IsNone(params)
        THEN [success |-> FALSE, error |-> substitution_error, recurrence |-> recurrence]
        ELSE
        Let(generate_substitution_steps(params.decrement, params.cost, 4), LAMBDA steps :
        LET decrement == params.decrement
            cost == params.cost
            pattern == determine_pattern(decrement, cost)
            complexity == calculate_complexity_from_pattern(decrement, cost)
            explanation_parts ==
                <<"Aplicando método de sustitución:", "Expandimos la recurrencia 4 veces:">>
                \o [i \in 1..Len(steps) |-> "  " \o steps[i]]
                \o <<"", "Observamos el patrón: " \o pattern,
                     "Con n/" \o ToString(decrement) \o " niveles hasta llegar al caso base",
                     "Por lo tanto: " \o complexity>>
        IN  [success |-> TRUE, recurrence |-> recurrence, decrement |-> decrement, cost |-> cost,
             steps |-> steps, pattern |-> pattern, complexity |-> complexity,
             explanation |-> JoinLines(explanation_parts)]))

(***************************************************************************)
(* recursion_tree.py                                                       *)
(***************************************************************************)
\* r'T\(n\)\s*=\s*(\d+)T\(n/(\d+)\)\s*\+\s*O?\((.+?)\)'
tree_pattern ==
    LitSeq(TofN) \o <<SpaceStar, Lit("="), SpaceStar, DigitsGroup(1)>>
        \o LitSeq("T(n/") \o <<DigitsGroup(2), Lit(")"), SpaceStar, Lit("+"), SpaceStar>>
        \o <<Opt("O"), Lit("("), AnyLazyGroup(3), Lit(")")>>

tree_error == "No se pudo parsear como recurrencia divide-y-conquista"

analyze_recursion_tree(recurrence) ==
    Let(Search(tree_pattern, recurrence), LAMBDA match :
        IF ~match.ok THEN [success |-> FALSE, error |-> tree_error]
        ELSE
        LET a == ParseInt(match.caps[1])
            b == ParseInt(match.caps[2])
            f_n == Strip(match.caps[3])
            depth == "log_" \o ToString(b) \o "(n)"
            nodes(level) == Pow(a, level)
            size(level) == IF level = 0 THEN "n" ELSE "n/" \o ToString(Pow(b, level))
            work(level) ==
                IF f_n = "1" THEN ToString(nodes(level)) \o " × O(1) = O(" \o ToString(nodes(level)) \o ")"
                ELSE IF f_n = "n" THEN ToString(nodes(level)) \o " × O(" \o size(level) \o ") = O(n)"
                ELSE ToString(nodes(level)) \o " × O(" \o f_n \o ") en tamaño " \o size(level)
            total_leaves == ToString(a) \o "^" \o depth \o " = n^(log_" \o ToString(b) \o "(" \o ToString(a) \o "))"
            total_work ==
                IF f_n = "n" THEN "O(n) por nivel × " \o depth \o " niveles = O(n log n)"
                ELSE IF f_n = "1" THEN "Hojas: " \o total_leaves
                ELSE "Ver Teorema Maestro para cálculo exacto"
        IN  [success |-> TRUE, a |-> a, b |-> b, f_n |-> f_n, tree_depth |-> depth,
             nodes_per_level |-> [l \in 1..4 |-> "Nivel " \o ToString(l - 1) \o ": " \o ToString(nodes(l - 1)) \o " nodos"],
             work_per_level |-> [l \in 1..4 |-> work(l - 1)],
             total_work |-> total_work,
             explanation |-> "Árbol con ramificación " \o ToString(a) \o " y profundidad " \o depth \o ". "
                             \o "Trabajo de O(" \o f_n \o ") en cada nodo."])

(***************************************************************************)
(* summation_solver.py                                                     *)
(***************************************************************************)
\* the character SUPERSCRIPT FOUR (U+2074), which a TLA+ string cannot hold
Superscript4 == "{U+2074}"

\* the library of known patterns, in the order of the list
KNOWN_PATTERNS ==
    <<
       [pattern |-> LitSeq("Σ(i=1 to n) O(1)"),
        formula |-> "n", complexity |-> "O(n)", description |-> "Sumatoria de constante n veces"],
       [pattern |-> LitSeq("Σ(i=1 to n) 1"),
        formula |-> "n", complexity |-> "O(n)", description |-> "Sumatoria de 1 desde 1 hasta n"],
       [pattern |-> LitSeq("Σ(i=1 to n) i"),
        formula |-> "n(n+1)/2", complexity |-> "O(n²)", description |-> "Suma aritmética: 1+2+3+...+n"],
       [pattern |-> LitSeq("Σ(i=1 to n) i^2"),
        formula |-> "n(n+1)(2n+1)/6", complexity |-> "O(n³)", description |-> "Suma de cuadrados"],
       [pattern |-> LitSeq("Σ(i=1 to n) i^3"),
        formula |-> "[n(n+1)/2]²", complexity |-> "O(n" \o Superscript4 \o ")", description |-> "Suma de cubos"],
       [pattern |-> LitSeq("Σ(i=1 to n) 2^i"),
        formula |-> "2^(n+1) - 2", complexity |-> "O(2^n)", description |-> "Serie geométrica con r=2"],
       [pattern |-> LitSeq("Σ(i=0 to log n) 2^i"),
        formula |-> "2n - 1", complexity |-> "O(n)", description |-> "Serie geométrica hasta log n"]
    >>

\* ' '.join(s.split()): the words of s separated by single spaces
RECURSIVE JoinSplit(_, _)
JoinSplit(s, p) ==
    IF p > Len(s) THEN ""
    ELSE IF IsSpace(Char(s, p)) THEN
        (IF p < Len(s) /\ ~IsSpace(Char(s, p + 1)) THEN " " \o JoinSplit(s, p + 1) ELSE JoinSplit(s, p + 1))
    ELSE Char(s, p) \o JoinSplit(s, p + 1)

\* r'O\s*\(\s*1\s*\)'
o_one_pattern == <<Lit("O"), SpaceStar, Lit("("), SpaceStar, Lit("1"), SpaceStar, Lit(")")>>

\* r'O\s*\(\s*(\w+)\s*\)'
o_word_pattern == <<Lit("O"), SpaceStar, Lit("("), SpaceStar, WordGroup(1), SpaceStar, Lit(")")>>

o_one_repl(caps) == "O(1)"

\* r'O(\1)'
o_word_repl(caps) == "O(" \o caps[1] \o ")"

normalize_summation(summation) ==
    LET joined == JoinSplit(LStrip(summation), 1)
        first == Sub(o_one_pattern, o_one_repl, joined)
    IN  Sub(o_word_pattern, o_word_repl, first)

OuterSum == "Σ(i=1 to n)"

\* r'Σ\(i=1 to n\)\s*Σ\(j=([^)]+)\)\s*(.+)'
nested_pattern ==
    LitSeq(OuterSum) \o <<SpaceStar>> \o LitSeq("Σ(j=")
        \o <<NotCharGroup(")", 1), Lit(")"), SpaceStar, AnyGreedyGroup(2)>>

\* the dict describing the nested summation, or None
identify_nested_summation(summation) ==
    Let(Search(nested_pattern, summation), LAMBDA match :
    LET inner_range == Strip(match.caps[1])
        inner_expr == Strip(match.caps[2])
    IN  IF ~match.ok THEN NoneRec
        ELSE IF Contains(inner_range, "j=1 to i") \/ Contains(inner_range, "j=i to n")
        THEN [type |-> "nested", outer |-> "i=1 to n", inner_range |-> inner_range,
              inner_expr |-> inner_expr, pattern |-> "triangular"]
        ELSE IF Contains(inner_range, "j=1 to n")
        THEN [type |-> "nested", outer |-> "i=1 to n", inner_range |-> inner_range,
              inner_expr |-> inner_expr, pattern |-> "rectangular"]
        ELSE NoneRec)

nested_error == [success |-> FALSE, error |-> "Patrón de sumatoria anidada no reconocido"]

solve_nested_summation(nested_info) ==
    LET pattern == nested_info.pattern
        inner_expr == nested_info.inner_expr
        constant_body == Contains(inner_expr, "O(1)") \/ inner_expr = "1"
    IN  IF pattern = "triangular" THEN
            (IF constant_body THEN
                [success |-> TRUE, simplified |-> "n(n+1)/2", complexity |-> "O(n²)",
                 steps |-> <<"Sumatoria anidada: Σ(i=1 to n) Σ(j=1 to i) O(1)",
                             "La sumatoria interna da: Σ(j=1 to i) O(1) = i",
                             "Queda: Σ(i=1 to n) i",
                             "Aplicando fórmula de suma aritmética: n(n+1)/2",
                             "Por lo tanto: O(n²)">>,
                 explanation |-> "Sumatoria triangular donde la sumatoria interna depende del índice externo"]
             ELSE nested_error)
        ELSE IF pattern = "rectangular" THEN
            (IF constant_body THEN
                [success |-> TRUE, simplified |-> "n²", complexity |-> "O(n²)",
                 steps |-> <<"Sumatoria anidada: Σ(i=1 to n) Σ(j=1 to n) O(1)",
                             "La sumatoria interna da: Σ(j=1 to n) O(1) = n",
                             "Queda: Σ(i=1 to n) n = n × n",
                             "Por lo tanto: O(n²)">>,
                 explanation |-> "Sumatoria rectangular donde ambos loops van hasta n independientemente"]
             ELSE nested_error)
        ELSE nested_error

\* the first pattern of KNOWN_PATTERNS from index i on that matches, 0 if none
RECURSIVE first_known_pattern(_, _)
first_known_pattern(normalized, i) ==
    IF i > Len(KNOWN_PATTERNS) THEN 0
    ELSE IF Search(KNOWN_PATTERNS[i].pattern, normalized).ok THEN i
    ELSE Let(i + 1, LAMBDA j : first_known_pattern(normalized, j))

simplify_summation(summation) ==
    Let(normalize_summation(summation), LAMBDA normalized :
    Let(identify_nested_summation(normalized), LAMBDA nested_info :
        IF ~IsNone(nested_info) THEN solve_nested_summation(nested_info)
        ELSE
    Let(first_known_pattern(normalized, 1), LAMBDA found :
    LET pattern == KNOWN_PATTERNS[found]
    IN  IF found # 0 THEN
            [success |-> TRUE, original |-> summation, simplified |-> pattern.formula,
             complexity |-> pattern.complexity, explanation |-> pattern.description,
             steps |-> <<"Identificado patrón: " \o pattern.description,
                         "Aplicando fórmula: " \o pattern.formula,
                         "Complejidad: " \o pattern.complexity>>]
        ELSE [success |-> FALSE, error |-> "No se reconoció el patrón de la sumatoria",
              original |-> summation,
              suggestion |-> "Puede requerir análisis manual o método de sustitución"])))

(***************************************************************************)
(* ast_nodes.py: a node is a record with the fields of its dataclass and   *)
(* the field `type` holding the name of its class.                         *)
(***************************************************************************)
Number(value) == [type |-> "Number", value |-> value]

Boolean(value) == [type |-> "Boolean", value |-> value]

Variable(name) ==
    [type |-> "Variable", name |-> name, indices |-> NoneRec, field |-> None, field_indices |-> NoneRec,
     is_range |-> FALSE, range_start |-> NoneRec, range_end |-> NoneRec]

BinaryOp(operator, left, right) == [type |-> "BinaryOp", operator |-> operator, left |-> left, right |-> right]

UnaryOp(operator, operand) == [type |-> "UnaryOp", operator |-> operator, operand |-> operand]

FunctionCall(function_name, arguments) ==
    [type |-> "FunctionCall", function_name |-> function_name, arguments |-> arguments]

Block(statements) == [type |-> "Block", statements |-> statements]

Assignment(variable, value) == [type |-> "Assignment", variable |-> variable, value |-> value]

ForLoop(variable, start, end, body) ==
    [type |-> "ForLoop", variable |-> variable, start |-> start, end |-> end, body |-> body]

WhileLoop(condition, body) == [type |-> "WhileLoop", condition |-> condition, body |-> body]

\* the statements of a repeat loop are the list `body`
RepeatLoop(body, condition) == [type |-> "RepeatLoop", body |-> body, condition |-> condition]

IfStatement(condition, then_block, else_block) ==
    [type |-> "IfStatement", condition |-> condition, then_block |-> then_block, else_block |-> else_block]

CallStatement(function_name, arguments) ==
    [type |-> "CallStatement", function_name |-> function_name, arguments |-> arguments]

ReturnStatement(value) == [type |-> "ReturnStatement", value |-> value]

Comment(comment_text) == [type |-> "Comment", text |-> comment_text]

Subroutine(name, parameters, declarations, body) ==
    [type |-> "Subroutine", name |-> name, parameters |-> parameters, declarations |-> declarations,
     body |-> body]

Parameter(name) == [type |-> "Parameter", name |-> name, param_type |-> "simple", class_name |-> None,
                    dimensions |-> NoneRec]

\* isinstance(node, cls)
IsInstance(node, cls) == node.type = cls

\* hasattr(node, attr): reading an attribute a node does not have raises AttributeError
HasAttr(node, attr) == attr \in DOMAIN node

(***************************************************************************)
(* ast_analyzer.py: auxiliary functions                                    *)
(***************************************************************************)
RECURSIVE _expression_has_call(_, _)
_expression_has_call(expr, func_name) ==
    IF IsInstance(expr, "FunctionCall") THEN expr.function_name = func_name
    ELSE IF IsInstance(expr, "BinaryOp")
         THEN _expression_has_call(expr.left, func_name) \/ _expression_has_call(expr.right, func_name)
    ELSE IF IsInstance(expr, "UnaryOp") THEN _expression_has_call(expr.operand, func_name)
    ELSE FALSE

\* the arguments of the first matching call, searching left before right
RECURSIVE _extract_call_args(_, _)
_extract_call_args(expr, func_name) ==
    IF IsInstance(expr, "FunctionCall") /\ expr.function_name = func_name THEN expr.arguments
    ELSE IF IsInstance(expr, "BinaryOp") THEN
        LET left_args == _extract_call_args(expr.left, func_name)
        IN  IF left_args # <<>> THEN left_args ELSE _extract_call_args(expr.right, func_name)
    ELSE IF IsInstance(expr, "UnaryOp") THEN _extract_call_args(expr.operand, func_name)
    ELSE <<>>

\* ", ".join(parts)
RECURSIVE JoinComma(_)
JoinComma(parts) ==
    IF parts = <<>> THEN ""
    ELSE IF Len(parts) = 1 THEN parts[1]
    ELSE parts[1] \o ", " \o JoinComma(Tail(parts))

RECURSIVE _expression_to_string(_)
_expression_to_string(expr) ==
    IF IsInstance(expr, "Number") THEN ToString(expr.value)
    ELSE IF IsInstance(expr, "Variable") THEN expr.name
    ELSE IF IsInstance(expr, "BinaryOp")
         THEN _expression_to_string(expr.left) \o " " \o expr.operator \o " " \o _expression_to_string(expr.right)
    ELSE IF IsInstance(expr, "UnaryOp") THEN expr.operator \o _expression_to_string(expr.operand)
    ELSE IF IsInstance(expr, "FunctionCall")
         THEN expr.function_name \o "("
              \o JoinComma([i \in 1..Len(expr.arguments) |-> _expression_to_string(expr.arguments[i])]) \o ")"
    ELSE IF IsInstance(expr, "Boolean") THEN "Boolean(" \o (IF expr.value THEN "True" ELSE "False") \o ")"
    ELSE expr.type \o "(...)"

_args_to_string(args) == [i \in 1..Len(args) |-> _expression_to_string(args[i])]

_has_recursion_in_block(statements, func_name) ==
    \E i \in 1..Len(statements) :
        LET stmt == statements[i]
        IN  \/ IsInstance(stmt, "CallStatement") /\ stmt.function_name = func_name
            \/ IsInstance(stmt, "ReturnStatement") /\ _expression_has_call(stmt.value, func_name)
            \/ IsInstance(stmt, "Assignment") /\ _expression_has_call(stmt.value, func_name)

\* the text of the first return statement of the block, or None
RECURSIVE _extract_return_value(_)
_extract_return_value(statements) ==
    IF statements = <<>> THEN None
    ELSE IF IsInstance(Head(statements), "ReturnStatement") THEN _expression_to_string(Head(statements).value)
    ELSE _extract_return_value(Tail(statements))

(***************************************************************************)
(* ast_analyzer.py: tools for recursive algorithms                         *)
(***************************************************************************)
\* the walk of find_recursive_calls from statement i of the list on; acc
\* holds the lists calls and positions, or the exception raised so far
RECURSIVE search_calls(_, _, _, _, _)
search_calls(func_name, statements, path, i, acc) ==
    IF IsRaised(acc) \/ i > Len(statements) THEN acc
    ELSE
    LET stmt == statements[i]
        current_path == path \o "[" \o ToString(i - 1) \o "]"
        found(args, suffix) == [calls |-> Append(acc.calls, args),
                                positions |-> Append(acc.positions, current_path \o suffix)]
        after ==
            IF IsInstance(stmt, "CallStatement") THEN
                (IF stmt.function_name = func_name THEN found(stmt.arguments, ".call") ELSE acc)
            ELSE IF IsInstance(stmt, "ReturnStatement") THEN
                (IF _expression_has_call(stmt.value, func_name)
                 THEN found(_extract_call_args(stmt.value, func_name), ".return") ELSE acc)
            ELSE IF IsInstance(stmt, "Assignment") THEN
                (IF _expression_has_call(stmt.value, func_name)
                 THEN found(_extract_call_args(stmt.value, func_name), ".assignment") ELSE acc)
            ELSE IF IsInstance(stmt, "ForLoop") THEN
                search_calls(func_name, stmt.body.statements, current_path \o ".for", 1, acc)
            ELSE IF IsInstance(stmt, "WhileLoop") THEN
                search_calls(func_name, stmt.body.statements, current_path \o ".while", 1, acc)
            ELSE IF IsInstance(stmt, "RepeatLoop") THEN
                (IF HasAttr(stmt, "statements")
                 THEN search_calls(func_name, stmt.statements, current_path \o ".repeat", 1, acc)
                 ELSE Raised("AttributeError"))
            ELSE IF IsInstance(stmt, "IfStatement") THEN
                LET then_acc == search_calls(func_name, stmt.then_block.statements, current_path \o ".then", 1, acc)
                IN  IF ~IsNone(stmt.else_block)
                    THEN search_calls(func_name, stmt.else_block.statements, current_path \o ".else", 1, then_acc)
                    ELSE then_acc
            ELSE acc
    IN  search_calls(func_name, statements, path, i + 1, after)

find_recursive_calls(sub) ==
    LET walked == search_calls(sub.name, sub.body, "body", 1, [calls |-> <<>>, positions |-> <<>>])
    IN  IF IsRaised(walked) THEN walked
        ELSE [count |-> Len(walked.calls), positions |-> walked.positions,
              arguments |-> [c \in 1..Len(walked.calls) |-> _args_to_string(walked.calls[c])]]

no_base_case == [exists |-> FALSE, condition |-> None, return_value |-> None, position |-> None]

\* the loop of detect_base_case from statement i on
RECURSIVE base_case_from(_, _)
base_case_from(sub, i) ==
    IF i > Len(sub.body) THEN no_base_case
    ELSE
    LET stmt == sub.body[i]
    IN  IF IsInstance(stmt, "IfStatement") /\ ~_has_recursion_in_block(stmt.then_block.statements, sub.name)
        THEN [exists |-> TRUE, condition |-> _expression_to_string(stmt.condition),
              return_value |-> _extract_return_value(stmt.then_block.statements),
              position |-> "body[" \o ToString(i - 1) \o "].then"]
        ELSE base_case_from(sub, i + 1)

\* detect_base_case with the loop starting one statement late
detect_base_case_late(sub) == base_case_from(sub, 2)

detect_base_case(sub) == base_case_from(sub, 1)

\* the concatenation of the lists of a list
RECURSIVE Flatten(_)
Flatten(lists) == IF lists = <<>> THEN <<>> ELSE Head(lists) \o Flatten(Tail(lists))

analyze_recursion_parameter(sub, param_name) ==
    LET recursive_calls == find_recursive_calls(sub)
    IN  IF IsRaised(recursive_calls) THEN recursive_calls
        ELSE IF recursive_calls.count = 0 THEN [pattern |-> "none", reduction_factor |-> "0", examples |-> <<>>]
        ELSE
        LET patterns == SelectSeq(Flatten(recursive_calls.arguments), LAMBDA arg : Contains(arg, param_name))
            first_pattern == patterns[1]
        IN  IF patterns = <<>> THEN [pattern |-> "constant", reduction_factor |-> "0", examples |-> <<>>]
            ELSE IF Contains(first_pattern, "-1") \/ Contains(first_pattern, "- 1")
                 THEN [pattern |-> "n-1", reduction_factor |-> "1", examples |-> patterns]
            ELSE IF Contains(first_pattern, "/2") \/ Contains(first_pattern, "div 2")
                 THEN [pattern |-> "n/2", reduction_factor |-> "2", examples |-> patterns]
            ELSE IF Contains(first_pattern, "/") \/ Contains(first_pattern, "div")
                 THEN [pattern |-> "n/b", reduction_factor |-> "b", examples |-> patterns]
            ELSE [pattern |-> "custom", reduction_factor |-> "unknown", examples |-> patterns]

(***************************************************************************)
(* ast_analyzer.py: tools for iterative algorithms                         *)
(***************************************************************************)
Max(x, y) == IF x > y THEN x ELSE y

loop_data(type, variable, start, end, nesting, position) ==
    [type |-> type, variable |-> variable, start |-> start, end |-> end,
     nesting_level |-> nesting, position |-> position]

\* the statements i.. of one call analyze_statements(statements, nesting, path);
\* acc holds loops_info and max_nesting, or the exception raised so far
RECURSIVE analyze_statements_from(_, _, _, _, _), analyze_statements(_, _, _, _)
analyze_statements_from(statements, nesting, path, i, acc) ==
    IF IsRaised(acc) \/ i > Len(statements) THEN acc
    ELSE
    LET stmt == statements[i]
        current_path == path \o "[" \o ToString(i - 1) \o "]"
        with(data) == [acc EXCEPT !.loops_info = Append(@, data)]
        after ==
            IF IsInstance(stmt, "ForLoop") THEN
                analyze_statements(stmt.body.statements, nesting + 1, current_path \o ".body",
                                   with(loop_data("FOR", stmt.variable, _expression_to_string(stmt.start),
                                                  _expression_to_string(stmt.end), nesting, current_path)))
            ELSE IF IsInstance(stmt, "WhileLoop") THEN
                analyze_statements(stmt.body.statements, nesting + 1, current_path \o ".body",
                                   with(loop_data("WHILE", "condition-based", "unknown", "unknown",
                                                  nesting, current_path)))
            ELSE IF IsInstance(stmt, "RepeatLoop") THEN
                (IF HasAttr(stmt, "statements")
                 THEN analyze_statements(stmt.statements, nesting + 1, current_path \o ".body",
                                         with(loop_data("REPEAT", "condition-based", "unknown", "unknown",
                                                        nesting, current_path)))
                 ELSE Raised("AttributeError"))
            ELSE IF IsInstance(stmt, "IfStatement") THEN
                LET then_acc == analyze_statements(stmt.then_block.statements, nesting, current_path \o ".then", acc)
                IN  IF ~IsNone(stmt.else_block)
                    THEN analyze_statements(stmt.else_block.statements, nesting, current_path \o ".else", then_acc)
                    ELSE then_acc
            ELSE acc
    IN  analyze_statements_from(statements, nesting, path, i + 1, after)

\* max_nesting is raised on entry, before any statement is looked at
analyze_statements(statements, nesting, path, acc) ==
    IF IsRaised(acc) THEN acc
    ELSE analyze_statements_from(statements, nesting, path, 1,
                                 [acc EXCEPT !.max_nesting = Max(@, nesting)])

\* analyze_loops with max_nesting taken as the largest nesting_level recorded
analyze_loops_by_level(sub) ==
    LET walked == analyze_statements(sub.body, 0, "body", [loops_info |-> <<>>, max_nesting |-> 0])
        levels == {walked.loops_info[i].nesting_level : i \in 1..Len(walked.loops_info)}
    IN  IF IsRaised(walked) THEN walked
        ELSE [total_loops |-> Len(walked.loops_info),
              max_nesting |-> IF levels = {} THEN 0 ELSE CHOOSE l \in levels : \A m \in levels : m <= l,
              loops |-> walked.loops_info]

analyze_loops(sub) ==
    LET walked == analyze_statements(sub.body, 0, "body", [loops_info |-> <<>>, max_nesting |-> 0])
    IN  IF IsRaised(walked) THEN walked
        ELSE [total_loops |-> Len(walked.loops_info), max_nesting |-> walked.max_nesting,
              loops |-> walked.loops_info]

\* the loop of count_operations_in_loop from statement i on
RECURSIVE op_count_from(_, _)
op_count_from(loop_body, i) ==
    IF i > Len(loop_body) THEN 0
    ELSE
    LET stmt == loop_body[i]
        weight == IF IsInstance(stmt, "Assignment") THEN 1
                  ELSE IF IsInstance(stmt, "CallStatement") THEN 1
                  ELSE IF stmt.type \in {"ForLoop", "WhileLoop", "RepeatLoop"} THEN 10
                  ELSE 0
    IN  weight + op_count_from(loop_body, i + 1)

\* count_operations_in_loop without the floor of 1
count_operations_unfloored(loop_body) == op_count_from(loop_body, 1)

count_operations_in_loop(loop_body) == Max(op_count_from(loop_body, 1), 1)

\* the walk of detect_conditionals from statement i of the list on; acc is
\* the list conditionals
RECURSIVE search_ifs(_, _, _, _, _)
search_ifs(func_name, statements, path, i, acc) ==
    IF i > Len(statements) THEN acc
    ELSE
    LET stmt == statements[i]
        here == path \o "[" \o ToString(i - 1) \o "]"
        cond_data ==
            [condition |-> _expression_to_string(stmt.condition), position |-> here,
             has_recursion_then |-> _has_recursion_in_block(stmt.then_block.statements, func_name),
             has_recursion_else |-> _has_recursion_in_block(
                 IF ~IsNone(stmt.else_block) THEN stmt.else_block.statements ELSE <<>>, func_name)]
        after ==
            IF IsInstance(stmt, "IfStatement") THEN
                LET then_acc == search_ifs(func_name, stmt.then_block.statements, here \o ".then", 1,
                                           Append(acc, cond_data))
                IN  IF ~IsNone(stmt.else_block)
                    THEN search_ifs(func_name, stmt.else_block.statements, here \o ".else", 1, then_acc)
                    ELSE then_acc
            ELSE IF IsInstance(stmt, "ForLoop") THEN
                search_ifs(func_name, stmt.body.statements, here \o ".for", 1, acc)
            ELSE IF IsInstance(stmt, "WhileLoop") THEN
                search_ifs(func_name, stmt.body.statements, here \o ".while", 1, acc)
            ELSE acc
    IN  search_ifs(func_name, statements, path, i + 1, after)

detect_conditionals(sub) == search_ifs(sub.name, sub.body, "body", 1, <<>>)

(***************************************************************************)
(* The input texts explored: recurrences of the divide-and-conquer and of  *)
(* the linear shape, summations, and texts of no accepted shape.           *)
(***************************************************************************)
\* the cost functions f(n) written in the texts
Costs == { "1", "log n", "n", "n log n",
           "n^2", "n^3", "n^4", "2^n",
           "sqrt(n)" }

\* the fixed lookup the Master Theorem claims are stated for
LookupCosts == { "1", "log n", "n", "n log n",
                 "n^2", "n^3" }

\* f(n) wrapped in O(...), in bare parentheses, or not wrapped
Wrapped(w, f) == CASE w = "O" -> "O(" \o f \o ")"
                   [] w = "paren" -> "(" \o f \o ")"
                   [] OTHER -> f

Wraps == {"O", "paren", "bare"}

\* "T(n) = aT(n/b) + f" with the coefficient text coef (empty when omitted),
\* the separator sep around "=" and "+", and star between a and T
DivideText(coef, star, b, wf, sep) ==
    TofN \o sep \o "=" \o sep \o coef \o star \o "T(n/" \o ToString(b) \o ")"
         \o sep \o "+" \o sep \o wf

CoefTexts == {""} \cup {ToString(a) : a \in 0..MaxA}

DivideTexts ==
    {DivideText(coef, "", b, Wrapped(w, f), " ") : coef \in CoefTexts, b \in 0..MaxB, w \in Wraps, f \in Costs}
    \cup {DivideText(ToString(a), star, 2, Wrapped("O", "n"), sep) :
            a \in 1..2, star \in {"*", " * "}, sep \in {"", " ", "  "}}

\* "T(n) = T(n-k) + f" with the separator sep around "=" and "+" and the
\* separator inner around "-"
LinearText(k, wf, sep, inner) ==
    TofN \o sep \o "=" \o sep \o "T(n" \o inner \o "-" \o inner \o ToString(k) \o ")"
         \o sep \o "+" \o sep \o wf

LinearTexts ==
    {LinearText(k, Wrapped(w, f), seps[1], seps[2]) :
        k \in 0..MaxK, w \in {"O", "bare"}, f \in Costs, seps \in {<<"", "">>, <<" ", "">>, <<" ", " ">>}}

\* texts of no accepted shape
OtherTexts == { "", "n", TofN, TofN \o " = n",
                TofN \o " = T(n-1)",
                TofN \o " = 2T(n/2)",
                "O(n)" }

\* the bodies of the summations
SumBodies == { "O(1)",
               "1",
               "i",
               "i^2",
               "i^3",
               "2^i",
               "n",
               "O( 1 )",
               "O (n)",
               "log i" }

\* the ranges of the inner summation of a nested summation
InnerRanges == { "1 to i", "i to n", "1 to n", "1 to m" }

LogSum == "Σ(i=0 to log n)"

\* "Σ(i=1 to n) body", "Σ(i=0 to log n) body" and "Σ(i=1 to n) Σ(j=range) body"
SummationTexts ==
    {outer \o sep \o body : outer \in {OuterSum, LogSum}, sep \in {" ", "  "}, body \in SumBodies}
    \cup {OuterSum \o sep \o "Σ(j=" \o range \o ") " \o body :
             sep \in {"", " "}, range \in InnerRanges, body \in SumBodies}

Texts == DivideTexts \cup LinearTexts \cup SummationTexts \cup OtherTexts

(***************************************************************************)
(* The resolvers as operations: a behaviour is one call of one resolver on *)
(* the input text; the call stores what the resolver returns, or the       *)
(* exception it raises.  The resolvers keep no state between calls.        *)
(***************************************************************************)
InitResolvers ==
    /\ text \in Texts
    /\ subroutine = NoneRec
    /\ param = None
    /\ called = "none"
    /\ result = NoneRec
    /\ tree = NoneRec
    /\ ast = NoneRec
    /\ Idle

ApplyMasterTheorem ==
    /\ called = "none"
    /\ result' = apply_master_theorem(text)
    /\ called' = "apply_master_theorem"
    /\ UNCHANGED <<text, subroutine, param, tree, ast, others>>

SolveBySubstitution ==
    /\ called = "none"
    /\ result' = solve_by_substitution(text)
    /\ called' = "solve_by_substitution"
    /\ UNCHANGED <<text, subroutine, param, tree, ast, others>>

AnalyzeRecursionTree ==
    /\ called = "none"
    /\ result' = analyze_recursion_tree(text)
    /\ called' = "analyze_recursion_tree"
    /\ UNCHANGED <<text, subroutine, param, tree, ast, others>>

SimplifySummation ==
    /\ called = "none"
    /\ result' = simplify_summation(text)
    /\ called' = "simplify_summation"
    /\ UNCHANGED <<text, subroutine, param, tree, ast, others>>

NextResolvers ==
    \/ ApplyMasterTheorem
    \/ SolveBySubstitution
    \/ AnalyzeRecursionTree
    \/ SimplifySummation

Spec == InitResolvers /\ [][NextResolvers]_vars

(***************************************************************************)
(* The subroutines explored: the examples of test_recursion.py, the nested *)
(* FOR example, and every body generated from a few simple statements by   *)
(* nesting loops and conditionals up to MaxDepth.                          *)
(***************************************************************************)
n_var == Variable("n")

Minus(k) == BinaryOp("-", n_var, Number(k))

base_condition == BinaryOp("<=", n_var, Number(1))

\* factorial(n) of test_recursion.py
factorial ==
    Subroutine("factorial", <<Parameter("n")>>, <<>>,
        << IfStatement(base_condition,
               Block(<<ReturnStatement(Number(1))>>),
               Block(<<ReturnStatement(BinaryOp("*", n_var, FunctionCall("factorial", <<Minus(1)>>)))>>)) >>)

\* fibonacci(n) of test_recursion.py
fibonacci ==
    Subroutine("fibonacci", <<Parameter("n")>>, <<>>,
        << IfStatement(base_condition,
               Block(<<ReturnStatement(n_var)>>),
               Block(<<ReturnStatement(BinaryOp("+", FunctionCall("fibonacci", <<Minus(1)>>),
                                                     FunctionCall("fibonacci", <<Minus(2)>>)))>>)) >>)

\* for i := 1 to n do for j := 1 to i do x := n
nested_for ==
    Subroutine("f", <<Parameter("n")>>, <<>>,
        << ForLoop("i", Number(1), n_var,
               Block(<< ForLoop("j", Number(1), Variable("i"),
                            Block(<<Assignment(Variable("x"), n_var)>>)) >>)) >>)

Examples == {factorial, fibonacci, nested_for}

Rec(arg) == FunctionCall("f", <<arg>>)

SimpleStatements ==
    { ReturnStatement(Number(1)),
      ReturnStatement(n_var),
      ReturnStatement(BinaryOp("*", n_var, Rec(Minus(1)))),
      ReturnStatement(BinaryOp("+", Rec(Minus(1)), Rec(Minus(2)))),
      ReturnStatement(BinaryOp("+", FunctionCall("f", <<>>), Rec(Minus(1)))),
      Assignment(Variable("x"), UnaryOp("-", Rec(BinaryOp("/", n_var, Number(2))))),
      Assignment(Variable("x"), n_var),
      CallStatement("f", <<Variable("m"), BinaryOp("div", n_var, Number(3))>>),
      CallStatement("g", <<n_var>>),
      Comment("c") }

\* the else branches of the generated conditionals
ElseBodies == { <<>>, <<ReturnStatement(BinaryOp("*", n_var, Rec(Minus(1))))>>, <<CallStatement("g", <<n_var>>)>> }

\* the statements with loops and conditionals nested at most d deep
RECURSIVE Statements(_)
Statements(d) ==
    IF d = 0 THEN SimpleStatements
    ELSE
    LET inner == Statements(d - 1)
        bodies == {<<s>> : s \in inner}
        blocks == {<<>>} \cup bodies
    IN  inner
        \cup {ForLoop("i", Number(1), n_var, Block(b)) : b \in blocks}
        \cup {WhileLoop(BinaryOp(">", n_var, Number(0)), Block(b)) : b \in blocks}
        \cup {RepeatLoop(b, BinaryOp("=", n_var, Number(0))) : b \in bodies}
        \cup {IfStatement(base_condition, Block(b), NoneRec) : b \in blocks}
        \cup {IfStatement(base_condition, Block(b), Block(e)) : b \in blocks, e \in ElseBodies}

\* the statements that generated bodies of several statements are made of
TopStatements ==
    { ReturnStatement(Number(1)),
      ReturnStatement(BinaryOp("+", Rec(Minus(1)), Rec(Minus(2)))),
      Assignment(Variable("x"), n_var),
      CallStatement("f", <<BinaryOp("/", n_var, Number(2))>>),
      IfStatement(base_condition, Block(<<ReturnStatement(Number(1))>>), NoneRec),
      IfStatement(BinaryOp("=", n_var, Number(0)), Block(<<ReturnStatement(Rec(Minus(1)))>>), NoneRec),
      IfStatement(base_condition, Block(<<WhileLoop(Boolean(TRUE), Block(<<CallStatement("f", <<Minus(1)>>)>>))>>),
                  Block(<<ReturnStatement(n_var)>>)),
      ForLoop("i", Number(1), n_var, Block(<<Assignment(Variable("x"), Rec(Minus(1)))>>)),
      WhileLoop(BinaryOp(">", n_var, Number(0)), Block(<<>>)) }

RECURSIVE SeqsOfLen(_, _)
SeqsOfLen(S, len) == IF len = 0 THEN {<<>>} ELSE {<<x>> \o rest : x \in S, rest \in SeqsOfLen(S, len - 1)}

Bodies ==
    {<<>>} \cup {<<s>> : s \in Statements(MaxDepth)}
    \cup UNION {SeqsOfLen(TopStatements, len) : len \in 2..MaxBody}

\* the arguments of the recursive call of the reduction examples
Reductions ==
    { Minus(1), Minus(2), Minus(10), Minus(12),
      BinaryOp("/", n_var, Number(2)), BinaryOp("div", n_var, Number(2)),
      BinaryOp("/", n_var, Number(3)), BinaryOp("div", n_var, Number(3)),
      BinaryOp("+", n_var, Number(1)), BinaryOp("-", Variable("m"), Number(1)), Number(0) }

\* f(n) begin return f(arg) end, for each of the reductions
ReductionBodies == {<<ReturnStatement(Rec(arg))>> : arg \in Reductions}

Subroutines == Examples \cup {Subroutine("f", <<Parameter("n")>>, <<>>, b) : b \in Bodies \cup ReductionBodies}

\* the parameter names asked about
ParamNames == {"n", "m"}

(***************************************************************************)
(* The structural analyzers as operations: a behaviour is one call of one  *)
(* analyzer on the input subroutine.  A list or a number that a function   *)
(* returns is stored as [value |-> it].                                    *)
(***************************************************************************)
InitAnalyzers ==
    /\ text = ""
    /\ subroutine \in Subroutines
    /\ param = None
    /\ called = "none"
    /\ result = NoneRec
    /\ tree = NoneRec
    /\ ast = NoneRec
    /\ Idle

FindRecursiveCalls ==
    /\ called = "none"
    /\ result' = find_recursive_calls(subroutine)
    /\ called' = "find_recursive_calls"
    /\ UNCHANGED <<text, subroutine, param, tree, ast, others>>

DetectBaseCase ==
    /\ called = "none"
    /\ result' = detect_base_case(subroutine)
    /\ called' = "detect_base_case"
    /\ UNCHANGED <<text, subroutine, param, tree, ast, others>>

AnalyzeRecursionParameter ==
    /\ called = "none"
    /\ \E param_name \in ParamNames :
        /\ result' = analyze_recursion_parameter(subroutine, param_name)
        /\ param' = param_name
    /\ called' = "analyze_recursion_parameter"
    /\ UNCHANGED <<text, subroutine, tree, ast, others>>

AnalyzeLoops ==
    /\ called = "none"
    /\ result' = analyze_loops(subroutine)
    /\ called' = "analyze_loops"
    /\ UNCHANGED <<text, subroutine, param, tree, ast, others>>

CountOperationsInLoop ==
    /\ called = "none"
    /\ result' = [value |-> count_operations_in_loop(subroutine.body)]
    /\ called' = "count_operations_in_loop"
    /\ UNCHANGED <<text, subroutine, param, tree, ast, others>>

DetectConditionals ==
    /\ called = "none"
    /\ result' = [value |-> detect_conditionals(subroutine)]
    /\ called' = "detect_conditionals"
    /\ UNCHANGED <<text, subroutine, param, tree, ast, others>>

NextAnalyzers ==
    \/ FindRecursiveCalls
    \/ DetectBaseCase
    \/ AnalyzeRecursionParameter
    \/ AnalyzeLoops
    \/ CountOperationsInLoop
    \/ DetectConditionals

SpecAnalyzers == InitAnalyzers /\ [][NextAnalyzers]_vars

(***************************************************************************)
(* Properties of the complexity resolvers, checked under Spec              *)
(***************************************************************************)
Resolvers == {"apply_master_theorem", "solve_by_substitution", "analyze_recursion_tree", "simplify_summation"}

\* C1: no complexity resolver ever raises: whatever the input text, each of
\* the four resolvers returns a record carrying a `success` field, also for
\* the texts T(n) = aT(n/b) + O(f) with a = 0, b = 0 or b = 1.
C1_NoResolverRaises ==
    called \in Resolvers => (~IsRaised(result) /\ "success" \in DOMAIN result)

\* the order of f(n) in hundredths, for f in the fixed lookup
LookupOrder(f) ==
    CASE f = "1" -> 0
      [] f = "log n" -> 50
      [] f = "n" -> 100
      [] f = "n log n" -> 110
      [] f = "n^2" -> 200
      [] f = "n^3" -> 300

\* the texts "T(n) = aT(n/b) + O(f)" with a = b^k, b >= 2, k >= 0 and f in the
\* fixed lookup; a = 1 is written "1" or left out
PowerRecurrences ==
    {[text |-> DivideText(coef, "", b, "O(" \o f \o ")", " "), k |-> k, f |-> f] :
        <<coef, b, k, f>> \in
            {q \in (CoefTexts \X (2..MaxB) \X (0..MaxA) \X LookupCosts) :
                /\ Pow(q[2], q[3]) <= MaxA
                /\ \/ q[1] = ToString(Pow(q[2], q[3]))
                   \/ q[1] = "" /\ q[3] = 0}}

\* what the Master Theorem gives for the exponent c = k and the cost f
MasterOutcome(k, f) ==
    IF LookupOrder(f) < 100 * k THEN [case |-> 1, complexity |-> "n^" \o ToString(k)]
    ELSE IF LookupOrder(f) = 100 * k
         THEN [case |-> 2, complexity |-> IF k = 1 THEN "n log n" ELSE "n^" \o ToString(k) \o " log n"]
    ELSE [case |-> 3, complexity |-> f]

\* C2: for every recurrence T(n) = aT(n/b) + O(f) with a = b^k, b >= 2 and f
\* in the fixed lookup, apply_master_theorem answers case 1 with n^k when
\* order(f) < k, case 2 with "n^k log n" ("n log n" when k = 1) when
\* order(f) = k, and case 3 with f when order(f) > k; "T(n) = 2T(n/2) + O(n)"
\* gives case 2, log_b_a 1.0 and "n log n".
C2_MasterTheoremCases ==
    called = "apply_master_theorem" =>
        /\ \A r \in PowerRecurrences :
              text = r.text =>
                  /\ ~IsRaised(result)
                  /\ result.success
                  /\ result.case = MasterOutcome(r.k, r.f).case
                  /\ result.complexity = MasterOutcome(r.k, r.f).complexity
        /\ text = "T(n) = 2T(n/2) + O(n)" =>
              /\ ~IsRaised(result)
              /\ result.case = 2
              /\ result.log_b_a = "1.0"
              /\ result.complexity = "n log n"

\* apply_master_theorem has answered T(n) = 4T(n/2) + O(n^3), a recurrence
\* with a = b^2 and a cost of the lookup, as case 3
C2_Witness ==
    /\ called = "apply_master_theorem"
    /\ text = "T(n) = 4T(n/2) + O(n^3)"
    /\ ~IsRaised(result)
    /\ result.case = 3
    /\ result.complexity = "n^3"

HalvingConstant == "T(n) = T(n/2) + O(1)"

\* C3, as stated: apply_master_theorem("T(n) = T(n/2) + O(1)") returns
\* case = 1 with complexity "n^0".
C3_HalvingConstantIsCaseOne ==
    (called = "apply_master_theorem" /\ text = HalvingConstant) =>
        /\ ~IsRaised(result)
        /\ result.case = 1
        /\ result.complexity = "n^0"

\* C3, amended: apply_master_theorem("T(n) = T(n/2) + O(1)") reads a = 1 and
\* b = 2, finds the order 0 of f equal to log_b(a) = 0.0, and returns case = 2
\* with complexity "n^0 log n".
C3_HalvingConstantIsCaseTwo ==
    (called = "apply_master_theorem" /\ text = HalvingConstant) =>
        /\ ~IsRaised(result)
        /\ result.success
        /\ result.a = 1
        /\ result.b = 2
        /\ result.log_b_a = "0.0"
        /\ result.case = 2
        /\ result.complexity = "n^0 log n"

C3_Witness ==
    /\ called = "apply_master_theorem"
    /\ text = HalvingConstant
    /\ ~IsRaised(result)
    /\ result.f_n = "1"
    /\ result.case = 2

Triangular == "Σ(i=1 to n) Σ(j=1 to i) O(1)"

Rectangular == "Σ(i=1 to n) Σ(j=1 to n) O(1)"

\* C4: simplify_summation solves the two nested summations with a constant
\* inner body: the triangular one with simplified "n(n+1)/2" and complexity
\* "O(n²)", the rectangular one with complexity "O(n²)" and other steps.
C4_NestedSummationsSolved ==
    called = "simplify_summation" =>
        /\ text = Triangular =>
              /\ ~IsRaised(result)
              /\ result.success
              /\ result.simplified = "n(n+1)/2"
              /\ result.complexity = "O(n²)"
        /\ text = Rectangular =>
              /\ ~IsRaised(result)
              /\ result.success
              /\ result.complexity = "O(n²)"
              /\ result.steps # simplify_summation(Triangular).steps

\* the summation texts of the fixed library with the closed form of each
LibraryForms ==
    { <<"Σ(i=1 to n) O(1)", "n">>,
      <<"Σ(i=1 to n) 1", "n">>,
      <<"Σ(i=1 to n) i", "n(n+1)/2">>,
      <<"Σ(i=1 to n) i^2", "n(n+1)(2n+1)/6">>,
      <<"Σ(i=1 to n) i^3", "[n(n+1)/2]²">>,
      <<"Σ(i=1 to n) 2^i", "2^(n+1) - 2">>,
      <<"Σ(i=0 to log n) 2^i", "2n - 1">> }

\* C5: for each summation text of the fixed library, simplify_summation
\* returns the closed form of that very shape, never the one of another.
C5_LibraryClosedForms ==
    called = "simplify_summation" =>
        \A form \in LibraryForms :
            text = form[1] =>
                /\ ~IsRaised(result)
                /\ result.success
                /\ result.simplified = form[2]

\* C10: for every recurrence T(n) = T(n-k) + O(1) with k >= 1,
\* solve_by_substitution succeeds with complexity "O(n)" and exactly 4
\* steps, the i-th of which shows T(n - i·k).
C10_StepsUnrollOncePerEntry ==
    called = "solve_by_substitution" =>
        \A k \in 1..MaxK :
            text = LinearText(k, "O(1)", " ", "") =>
                /\ ~IsRaised(result)
                /\ result.success
                /\ result.complexity = "O(n)"
                /\ Len(result.steps) = 4
                /\ \A i \in 1..4 : Contains(result.steps[i], "T(n-" \o ToString(i * k) \o ")")

\* the separators the linear texts are written with
LinearSeps == {<<"", "">>, <<" ", "">>, <<" ", " ">>}

\* the final complexity the fixed table gives for the decrement k and the
\* per-level cost f: the level count is n/k, written n when k = 1
TableComplexity(k, f) ==
    CASE f = "1" -> "O(n)"
      [] f = "n" -> "O(n²)"
      [] f = "log n" -> "O(n log n)"
      [] OTHER -> "O(" \o (IF k > 1 THEN "n/" \o ToString(k) ELSE "n") \o " × " \o f \o ")"

\* C11: for every recurrence T(n) = T(n-k) + O(f) with k >= 1,
\* solve_by_substitution succeeds and its complexity is the table's answer
\* for the per-level cost f of the text: "O(n)" for 1, "O(n²)" for n,
\* "O(n log n)" for log n, and the product of the level count n/k and f for
\* any other f.
C11_CostTable ==
    called = "solve_by_substitution" =>
        \A k \in 1..MaxK, f \in Costs, seps \in LinearSeps :
            text = LinearText(k, "O(" \o f \o ")", seps[1], seps[2]) =>
                /\ ~IsRaised(result)
                /\ result.success
                /\ result.complexity = TableComplexity(k, f)

\* the fields a resolver echoes its input text in
EchoFields == {"recurrence", "original"}

\* C12: whenever a resolver answers success = false because the text has none
\* of its accepted shapes, the record carries an `error` message and a field
\* equal to the input text; this holds for each of the four resolvers.
C12_FailureEchoesInput ==
    (called \in Resolvers /\ ~IsRaised(result) /\ ~result.success) =>
        /\ "error" \in DOMAIN result
        /\ \E field \in EchoFields \cap DOMAIN result : result[field] = text

\* C13: every success record of each of the four resolvers has an
\* `explanation` text and a `steps` field that is a list of strings.
C13_SuccessHasExplanationAndSteps ==
    (called \in Resolvers /\ ~IsRaised(result) /\ result.success) =>
        /\ "explanation" \in DOMAIN result
        /\ result.explanation \in STRING
        /\ "steps" \in DOMAIN result
        /\ result.steps \in Seq(STRING)

\* the recurrence texts of the four accepted shapes: the coefficient a
\* written or left out, f(n) wrapped in O(...) or bare
FourShapes ==
    {DivideText(coef, "", b, Wrapped(w, f), " ") :
        coef \in CoefTexts, b \in 0..MaxB, w \in {"O", "bare"}, f \in Costs}

\* C14: for every recurrence text of the four accepted shapes,
\* analyze_recursion_tree succeeds with the a, b and f_n that
\* extract_recurrence_params reads from the same text, and with tree_depth
\* "log_b(n)".
C14_TreeExtractsAsMaster ==
    (called = "analyze_recursion_tree" /\ text \in FourShapes) =>
        LET params == extract_recurrence_params(text)
        IN  /\ ~IsNone(params)
            /\ ~IsRaised(result)
            /\ result.success
            /\ result.a = params.a
            /\ result.b = params.b
            /\ result.f_n = params.f_n
            /\ result.tree_depth = "log_" \o ToString(params.b) \o "(n)"

(***************************************************************************)
(* Properties of the structural analyzers, checked under SpecAnalyzers     *)
(***************************************************************************)
\* C6: find_recursive_calls counts the recursive calls of a subroutine:
\* count = 1 for factorial, count = 2 for fibonacci, whose one return
\* expression holds two calls to its own name.
C6_CountsRecursiveCalls ==
    called = "find_recursive_calls" =>
        /\ subroutine = factorial => (~IsRaised(result) /\ result.count = 1)
        /\ subroutine = fibonacci => (~IsRaised(result) /\ result.count = 2)

LoopTypes == {"ForLoop", "WhileLoop", "RepeatLoop"}

\* the body is one FOR loop whose body is one FOR loop with no loop or
\* conditional in it
IsNestedFor(sub) ==
    /\ Len(sub.body) = 1
    /\ IsInstance(sub.body[1], "ForLoop")
    /\ Len(sub.body[1].body.statements) = 1
    /\ IsInstance(sub.body[1].body.statements[1], "ForLoop")
    /\ \A i \in 1..Len(sub.body[1].body.statements[1].body.statements) :
          sub.body[1].body.statements[1].body.statements[i].type \notin LoopTypes \cup {"IfStatement"}

\* C7, as stated: for a FOR loop that contains one FOR loop, analyze_loops
\* returns total_loops = 2, max_nesting = 1, nesting_level 0 for the outer
\* loop and 1 for the inner one.
C7_MaxNestingIsOne ==
    (called = "analyze_loops" /\ IsNestedFor(subroutine)) =>
        /\ ~IsRaised(result)
        /\ result.total_loops = 2
        /\ result.max_nesting = 1
        /\ result.loops[1].nesting_level = 0
        /\ result.loops[2].nesting_level = 1

\* C7, amended: for a FOR loop that contains one FOR loop, analyze_loops
\* returns total_loops = 2, nesting_level 0 for the outer loop and 1 for the
\* inner one, and max_nesting = 2, the nesting of the inner loop's body.
C7_MaxNestingIsTwo ==
    (called = "analyze_loops" /\ IsNestedFor(subroutine)) =>
        /\ ~IsRaised(result)
        /\ result.total_loops = 2
        /\ result.max_nesting = 2
        /\ result.loops[1].nesting_level = 0
        /\ result.loops[2].nesting_level = 1

C7_Witness ==
    /\ called = "analyze_loops"
    /\ subroutine = nested_for
    /\ ~IsRaised(result)
    /\ result.loops[2].variable = "j"
    /\ result.loops[2].end = "i"

StructuralAnalyzers ==
    {"find_recursive_calls", "detect_base_case", "analyze_recursion_parameter", "analyze_loops",
     "detect_conditionals"}

\* C8: the structural analyzers never fail: for every well-formed subroutine,
\* with repeat loops or without, each of them returns a result and raises
\* nothing.
C8_AnalyzersNeverFail ==
    called \in StructuralAnalyzers => ~IsRaised(result)

\* C9: for the factorial subroutine detect_base_case returns exists = true,
\* condition "n <= 1", return_value "1" and position "body[0].then".
C9_FactorialBaseCase ==
    (called = "detect_base_case" /\ subroutine = factorial) =>
        result = [exists |-> TRUE, condition |-> "n <= 1", return_value |-> "1", position |-> "body[0].then"]

C9_Witness ==
    /\ called = "detect_base_case"
    /\ subroutine = factorial
    /\ result.exists

\* a call to func_name occurs in the statements, at any depth of loops and
\* conditionals: what find_recursive_calls looks for
RECURSIVE CallsDeep(_, _)
CallsDeep(statements, func_name) ==
    \E i \in 1..Len(statements) :
        LET stmt == statements[i]
        IN  \/ _has_recursion_in_block(<<stmt>>, func_name)
            \/ stmt.type \in {"ForLoop", "WhileLoop"} /\ CallsDeep(stmt.body.statements, func_name)
            \/ stmt.type = "RepeatLoop" /\ CallsDeep(stmt.body, func_name)
            \/ /\ stmt.type = "IfStatement"
               /\ \/ CallsDeep(stmt.then_block.statements, func_name)
                  \/ ~IsNone(stmt.else_block) /\ CallsDeep(stmt.else_block.statements, func_name)

\* statement i of the body is an IfStatement whose then-branch holds no
\* recursive call at any depth
IsBaseCase(sub, i) ==
    /\ sub.body[i].type = "IfStatement"
    /\ ~CallsDeep(sub.body[i].then_block.statements, sub.name)

\* C17: when detect_base_case answers exists = true at body[i].then,
\* statement i is the first top-level IfStatement whose then-branch holds no
\* recursive call at any depth, and return_value is the text of the first
\* return of that branch; when no top-level if qualifies it answers
\* exists = false with the other fields None.
C17_BaseCaseHasNoRecursion ==
    called = "detect_base_case" =>
        LET qualifying == {i \in 1..Len(subroutine.body) : IsBaseCase(subroutine, i)}
        IN  IF qualifying = {} THEN result = no_base_case
            ELSE /\ result.exists
                 /\ result.position = "body[" \o ToString(Least(qualifying) - 1) \o "].then"
                 /\ result.return_value =
                        _extract_return_value(subroutine.body[Least(qualifying)].then_block.statements)

\* the pattern and the reduction factor of an argument that reduces the
\* parameter p: a decrement by exactly 1, a halving, a division by another
\* constant, or anything else
Reduction(arg, p) ==
    LET constant_right == arg.type = "BinaryOp" /\ arg.left = Variable(p) /\ arg.right.type = "Number"
    IN  IF constant_right /\ arg.operator = "-" /\ arg.right.value = 1
        THEN [pattern |-> "n-1", reduction_factor |-> "1"]
        ELSE IF constant_right /\ arg.operator \in {"/", "div"} /\ arg.right.value = 2
        THEN [pattern |-> "n/2", reduction_factor |-> "2"]
        ELSE IF constant_right /\ arg.operator \in {"/", "div"}
        THEN [pattern |-> "n/b", reduction_factor |-> "b"]
        ELSE [pattern |-> "custom", reduction_factor |-> "unknown"]

\* C18: analyze_recursion_parameter classifies the first argument of the
\* recursive calls (in source order, left to right) whose text mentions
\* param_name: n - 1 gives "n-1" with factor "1", n / 2 and n div 2 give "n/2"
\* with factor "2", a division by another constant gives "n/b", anything
\* else, such as n - 10, gives "custom" with factor "unknown"; no recursive
\* call gives "none", and no argument mentioning the parameter "constant".
C18_ClassifiesReduction ==
    (called = "analyze_recursion_parameter" /\ ~IsRaised(result)) =>
        LET walked == search_calls(subroutine.name, subroutine.body, "body", 1, [calls |-> <<>>, positions |-> <<>>])
            mentioning == SelectSeq(Flatten(walked.calls),
                                    LAMBDA arg : Contains(_expression_to_string(arg), param))
        IN  IF walked.calls = <<>> THEN result.pattern = "none"
            ELSE IF mentioning = <<>> THEN result.pattern = "constant"
            ELSE /\ result.pattern = Reduction(mentioning[1], param).pattern
                 /\ result.reduction_factor = Reduction(mentioning[1], param).reduction_factor

\* a repeat loop occurs in the statements, at any depth
RECURSIVE HasRepeat(_)
HasRepeat(statements) ==
    \E i \in 1..Len(statements) :
        LET stmt == statements[i]
        IN  \/ stmt.type = "RepeatLoop"
            \/ stmt.type \in {"ForLoop", "WhileLoop"} /\ HasRepeat(stmt.body.statements)
            \/ /\ stmt.type = "IfStatement"
               /\ \/ HasRepeat(stmt.then_block.statements)
                  \/ ~IsNone(stmt.else_block) /\ HasRepeat(stmt.else_block.statements)

\* the leftmost call to func_name in a BinaryOp/UnaryOp tree that holds one
RECURSIVE LeftmostCall(_, _)
LeftmostCall(expr, func_name) ==
    IF expr.type = "FunctionCall" THEN expr
    ELSE IF expr.type = "UnaryOp" THEN LeftmostCall(expr.operand, func_name)
    ELSE IF _expression_has_call(expr.left, func_name) THEN LeftmostCall(expr.left, func_name)
    ELSE LeftmostCall(expr.right, func_name)

\* the argument texts of the entries expected of the statements, in
\* pre-order: one entry for each statement that calls func_name
RECURSIVE ExpectedEntries(_, _)
ExpectedEntries(statements, func_name) ==
    Flatten([i \in 1..Len(statements) |->
        LET stmt == statements[i]
        IN  IF stmt.type = "CallStatement"
            THEN (IF stmt.function_name = func_name THEN <<_args_to_string(stmt.arguments)>> ELSE <<>>)
            ELSE IF stmt.type \in {"ReturnStatement", "Assignment"}
            THEN (IF _expression_has_call(stmt.value, func_name)
                  THEN <<_args_to_string(LeftmostCall(stmt.value, func_name).arguments)>> ELSE <<>>)
            ELSE IF stmt.type \in {"ForLoop", "WhileLoop"} THEN ExpectedEntries(stmt.body.statements, func_name)
            ELSE IF stmt.type = "IfStatement"
            THEN ExpectedEntries(stmt.then_block.statements, func_name)
                 \o (IF IsNone(stmt.else_block) THEN <<>>
                     ELSE ExpectedEntries(stmt.else_block.statements, func_name))
            ELSE <<>>])

\* C19: for a subroutine without repeat loops, find_recursive_calls reports
\* one entry for each statement that calls the subroutine (a CallStatement,
\* or a return or assignment whose expression tree holds a call), at any
\* depth of for/while/if, in pre-order; the arguments of an entry are those
\* of the leftmost matching call of its statement, and count is the length
\* of both lists.
C19_OneEntryPerCallingStatement ==
    (called = "find_recursive_calls" /\ ~HasRepeat(subroutine.body)) =>
        /\ ~IsRaised(result)
        /\ result.arguments = ExpectedEntries(subroutine.body, subroutine.name)
        /\ result.count = Len(result.arguments)
        /\ result.count = Len(result.positions)

\* the records expected of the IfStatements of the statements, in
\* depth-first pre-order through loop bodies and then/else branches
RECURSIVE ExpectedConditionals(_, _)
ExpectedConditionals(statements, func_name) ==
    Flatten([i \in 1..Len(statements) |->
        LET stmt == statements[i]
            else_statements == IF IsNone(stmt.else_block) THEN <<>> ELSE stmt.else_block.statements
        IN  IF stmt.type = "IfStatement"
            THEN <<[condition |-> _expression_to_string(stmt.condition),
                    has_recursion_then |-> _has_recursion_in_block(stmt.then_block.statements, func_name),
                    has_recursion_else |-> _has_recursion_in_block(else_statements, func_name)]>>
                 \o ExpectedConditionals(stmt.then_block.statements, func_name)
                 \o ExpectedConditionals(else_statements, func_name)
            ELSE IF stmt.type \in {"ForLoop", "WhileLoop"}
            THEN ExpectedConditionals(stmt.body.statements, func_name)
            ELSE IF stmt.type = "RepeatLoop" THEN ExpectedConditionals(stmt.body, func_name)
            ELSE <<>>])

\* C20: detect_conditionals returns one record for every IfStatement of the
\* subroutine, reached through top-level statements, the bodies of for,
\* while and repeat loops and then/else branches, in depth-first pre-order;
\* has_recursion_then and has_recursion_else tell whether a statement of the
\* block's own level calls the subroutine, and has_recursion_else is false
\* when there is no else.
C20_OneRecordPerConditional ==
    called = "detect_conditionals" =>
        /\ ~IsRaised(result)
        /\ [i \in 1..Len(result.value) |->
               [condition |-> result.value[i].condition,
                has_recursion_then |-> result.value[i].has_recursion_then,
                has_recursion_else |-> result.value[i].has_recursion_else]]
           = ExpectedConditionals(subroutine.body, subroutine.name)

(***************************************************************************)
(* lark: a parse tree is Tree(data, children) and a leaf is                *)
(* Token(type, value).  The objects the transformer builds have identity:  *)
(* they live in a heap, the sequence of the objects created so far, and    *)
(* are held by reference.  A value is a reference [ref |-> id], a list     *)
(* [list |-> elements], a tuple [tuple |-> elements], a str, int or bool   *)
(* [prim |-> v], None, or a Token.                                         *)
(***************************************************************************)
Tree(data, children) == [data |-> data, children |-> children]

Token(type, value) == [token |-> type, value |-> value]

\* cls(**attrs): the heap with the new object, and the reference to it
New(heap, cls, attrs) ==
    [heap |-> Append(heap, [cls |-> cls, attrs |-> attrs]), val |-> [ref |-> Len(heap) + 1]]

\* the subclasses of Statement and of Expression (ast_nodes.py)
StatementClasses ==
    {"Assignment", "ForLoop", "WhileLoop", "RepeatLoop", "IfStatement", "CallStatement", "ReturnStatement",
     "Comment"}

ExpressionClasses ==
    {"Number", "Boolean", "Null", "Variable", "BinaryOp", "UnaryOp", "FunctionCall", "Length", "Ceiling",
     "Floor"}

\* isinstance(item, cls) for one of the classes
IsA(heap, item, classes) == "ref" \in DOMAIN item /\ heap[item.ref].cls \in classes

\* isinstance(item, list) and all(isinstance(x, cls) for x in item)
IsListOf(heap, item, classes) ==
    "list" \in DOMAIN item /\ \A i \in 1..Len(item.list) : IsA(heap, item.list[i], classes)

(***************************************************************************)
(* transformer.py: PseudocodeTransformer.  A callback takes the            *)
(* transformed children of its rule and the heap, and gives the heap after *)
(* it and the value it returns.                                            *)
(***************************************************************************)
program(items, heap) ==
    LET classes == SelectSeq(items, LAMBDA item : IsA(heap, item, {"ClassDefinition"}))
        algorithms == SelectSeq(items, LAMBDA item : IsA(heap, item, {"Algorithm"}))
    IN  New(heap, "Program",
            [classes |-> [list |-> classes],
             algorithm |-> IF algorithms = <<>> THEN NoneRec ELSE algorithms[Len(algorithms)]])

\* algorithm with the subroutines collected in reverse order
algorithm_reversed(items, heap) ==
    LET subroutines == SelectSeq(items, LAMBDA item : IsA(heap, item, {"Subroutine"}))
        mains == SelectSeq(items, LAMBDA item : IsA(heap, item, {"MainAlgorithm"}))
    IN  New(heap, "Algorithm",
            [subroutines |->
                 [list |-> SubSeq([i \in 1..Len(subroutines) |-> subroutines[Len(subroutines) + 1 - i]],
                                  1, Len(subroutines))],
             main |-> IF mains = <<>> THEN NoneRec ELSE mains[Len(mains)]])

algorithm(items, heap) ==
    LET subroutines == SelectSeq(items, LAMBDA item : IsA(heap, item, {"Subroutine"}))
        mains == SelectSeq(items, LAMBDA item : IsA(heap, item, {"MainAlgorithm"}))
    IN  New(heap, "Algorithm",
            [subroutines |-> [list |-> subroutines],
             main |-> IF mains = <<>> THEN NoneRec ELSE mains[Len(mains)]])

main_algorithm(items, heap) ==
    LET declarations ==
            Flatten([i \in 1..Len(items) |->
                IF IsA(heap, items[i], {"Declaration"}) THEN <<items[i]>>
                ELSE IF IsListOf(heap, items[i], {"Declaration"}) THEN items[i].list
                ELSE <<>>])
        statements == SelectSeq(items, LAMBDA item : IsA(heap, item, StatementClasses))
    IN  New(heap, "MainAlgorithm", [declarations |-> [list |-> declarations], body |-> [list |-> statements]])

subroutine_definition(items, heap) ==
    LET rest == Tail(items)
        parameters ==
            Flatten([i \in 1..Len(rest) |->
                IF IsA(heap, rest[i], {"Parameter"}) THEN <<rest[i]>>
                ELSE IF IsListOf(heap, rest[i], {"Parameter"}) THEN rest[i].list
                ELSE <<>>])
        declarations ==
            Flatten([i \in 1..Len(rest) |->
                IF IsA(heap, rest[i], {"Declaration"}) THEN <<rest[i]>>
                ELSE IF ~IsListOf(heap, rest[i], {"Parameter"}) /\ IsListOf(heap, rest[i], {"Declaration"})
                     THEN rest[i].list
                ELSE <<>>])
        statements == SelectSeq(rest, LAMBDA item : IsA(heap, item, StatementClasses))
    IN  New(heap, "Subroutine",
            [name |-> [prim |-> items[1].value], parameters |-> [list |-> parameters],
             declarations |-> [list |-> declarations], body |-> [list |-> statements]])

local_declaration(items, heap) ==
    IF Len(items) = 2 /\ IsA(heap, items[2], ExpressionClasses)
    THEN New(heap, "Declaration",
             [name |-> [prim |-> items[1].value], decl_type |-> [prim |-> "array"], size |-> items[2],
              class_name |-> NoneRec])
    ELSE New(heap, "Declaration",
             [name |-> [prim |-> items[2].value], decl_type |-> [prim |-> "object"], size |-> NoneRec,
              class_name |-> [prim |-> items[1].value]])

\* simple_parameter, array_parameter and object_parameter
parameter_of(kind, items, heap) ==
    IF kind = "simple_parameter"
    THEN New(heap, "Parameter",
             [name |-> [prim |-> items[1].value], param_type |-> [prim |-> "simple"], class_name |-> NoneRec,
              dimensions |-> NoneRec])
    ELSE IF kind = "array_parameter"
    THEN New(heap, "Parameter",
             [name |-> [prim |-> items[1].value], param_type |-> [prim |-> "array"], class_name |-> NoneRec,
              dimensions |->
                  [prim |-> Len(SelectSeq(Tail(items),
                                          LAMBDA item : IsNone(item) \/ IsA(heap, item, ExpressionClasses)))]])
    ELSE New(heap, "Parameter",
             [name |-> [prim |-> items[2].value], param_type |-> [prim |-> "object"],
              class_name |-> [prim |-> items[1].value], dimensions |-> NoneRec])

assignment(items, heap) ==
    LET expressions == SelectSeq(Tail(items), LAMBDA item : IsA(heap, item, ExpressionClasses))
    IN  New(heap, "Assignment",
            [variable |-> items[1],
             value |-> IF expressions # <<>> THEN expressions[1] ELSE items[Len(items)]])

\* a missing bound is a new Number(0), a missing block a new Block([])
for_loop(items, heap) ==
    LET expressions == SelectSeq(Tail(items), LAMBDA item : IsA(heap, item, ExpressionClasses))
        blocks == SelectSeq(Tail(items), LAMBDA item : IsA(heap, item, {"Block"}))
        zero == [value |-> [prim |-> 0]]
        start == IF Len(expressions) > 0 THEN [heap |-> heap, val |-> expressions[1]]
                 ELSE New(heap, "Number", zero)
        end == IF Len(expressions) > 1 THEN [heap |-> start.heap, val |-> expressions[2]]
               ELSE New(start.heap, "Number", zero)
        body == IF blocks # <<>> THEN [heap |-> end.heap, val |-> blocks[1]]
                ELSE New(end.heap, "Block", [statements |-> [list |-> <<>>]])
    IN  New(body.heap, "ForLoop",
            [variable |-> [prim |-> items[1].value], start |-> start.val, end |-> end.val, body |-> body.val])

if_statement(items, heap) ==
    New(heap, "IfStatement",
        [condition |-> items[1], then_block |-> items[2],
         else_block |-> IF Len(items) > 2 THEN items[3] ELSE NoneRec])

\* the text of a comment without its marker
comment(items, heap) ==
    LET stripped == Strip(items[1].value)
    IN  New(heap, "Comment",
            [text |-> [prim |-> IF IsPrefixAt(stripped, 1, "►")
                                THEN Strip(SubSeq(stripped, 2, Len(stripped))) ELSE stripped]])

block(items, heap) ==
    New(heap, "Block", [statements |-> [list |-> SelectSeq(items, LAMBDA item : IsA(heap, item, StatementClasses))]])

\* Variable(name=..., **access) with the defaults of the dataclass
NewVariable(heap, name, access) ==
    LET given(f, default) == IF f \in DOMAIN access THEN access[f] ELSE default
    IN  New(heap, "Variable",
            [name |-> [prim |-> name], indices |-> given("indices", NoneRec), field |-> given("field", NoneRec),
             field_indices |-> given("field_indices", NoneRec), is_range |-> given("is_range", [prim |-> FALSE]),
             range_start |-> given("range_start", NoneRec), range_end |-> given("range_end", NoneRec)])

variable(items, heap) ==
    IF Len(items) = 1 THEN NewVariable(heap, items[1].value, <<>>)
    ELSE IF "token" \in DOMAIN items[2] /\ items[2].token = "CNAME"
    THEN (IF Len(items) > 2
          THEN NewVariable(heap, items[1].value,
                           [field |-> [prim |-> items[2].value],
                            field_indices |-> [list |-> SubSeq(items, 3, Len(items))]])
          ELSE NewVariable(heap, items[1].value, [field |-> [prim |-> items[2].value]]))
    ELSE IF "tuple" \in DOMAIN items[2]
    THEN NewVariable(heap, items[1].value,
                     [is_range |-> [prim |-> TRUE], range_start |-> items[2].tuple[1],
                      range_end |-> items[2].tuple[2]])
    ELSE NewVariable(heap, items[1].value, [indices |-> [list |-> Tail(items)]])

\* logical_or and logical_and: every item after the first is a right operand
RECURSIVE fold_left(_, _, _, _, _)
fold_left(operator, items, i, heap, folded) ==
    IF i <= Len(items)
    THEN Let(New(heap, "BinaryOp", [operator |-> [prim |-> operator], left |-> folded, right |-> items[i]]),
             LAMBDA st : fold_left(operator, items, i + 1, st.heap, st.val))
    ELSE [heap |-> heap, val |-> folded]

\* the operator of arithmetic and term: the value of a Token, a str itself, str() of anything else
operator_of(operator_item) ==
    IF "token" \in DOMAIN operator_item THEN [prim |-> operator_item.value]
    ELSE IF "prim" \in DOMAIN operator_item THEN operator_item
    ELSE [str |-> operator_item]

\* the loop of comparison, arithmetic and term: items[i] is an operator, items[i + 1] its right operand;
\* comparison keeps the operator item as it is
RECURSIVE fold_pairs(_, _, _, _, _)
fold_pairs(rule, items, i, heap, folded) ==
    IF i + 1 <= Len(items)
    THEN Let(New(heap, "BinaryOp",
                 [operator |-> IF rule = "comparison" THEN items[i] ELSE operator_of(items[i]),
                  left |-> folded, right |-> items[i + 1]]),
             LAMBDA st : fold_pairs(rule, items, i + 2, st.heap, st.val))
    ELSE [heap |-> heap, val |-> folded]

\* the signs U+2264, U+2265 and U+2260, written by their code points
LessEqualSign == "u2264"

GreaterEqualSign == "u2265"

NotEqualSign == "u2260"

comp_op(items) ==
    IF Len(items) = 0 THEN [prim |-> "="]
    ELSE LET op == IF "token" \in DOMAIN items[1] THEN items[1].value ELSE items[1].prim
         IN  [prim |-> IF op = LessEqualSign THEN "<="
                       ELSE IF op = GreaterEqualSign THEN ">="
                       ELSE IF op = NotEqualSign THEN "!="
                       ELSE op]

logical_not(items, heap) ==
    IF Len(items) = 1 THEN [heap |-> heap, val |-> items[1]]
    ELSE New(heap, "UnaryOp", [operator |-> [prim |-> "not"], operand |-> items[1]])

factor(items, heap) ==
    IF Len(items) = 1 THEN [heap |-> heap, val |-> items[1]]
    ELSE New(heap, "UnaryOp",
             [operator |-> IF "token" \in DOMAIN items[1] THEN [prim |-> items[1].value] ELSE items[1],
              operand |-> items[2]])

\* power: from the last item to the first
RECURSIVE power_from(_, _, _, _)
power_from(items, i, heap, folded) ==
    IF i >= 1
    THEN Let(New(heap, "BinaryOp", [operator |-> [prim |-> "^"], left |-> items[i], right |-> folded]),
             LAMBDA st : power_from(items, i - 1, st.heap, st.val))
    ELSE [heap |-> heap, val |-> folded]

\* power folded from the first item to the last, like the other chains
power_left(items, heap) ==
    IF Len(items) = 1 THEN [heap |-> heap, val |-> items[1]]
    ELSE fold_left("^", items, 2, heap, items[1])

power(items, heap) ==
    IF Len(items) = 1 THEN [heap |-> heap, val |-> items[1]]
    ELSE power_from(items, Len(items) - 1, heap, items[Len(items)])

\* float(value) of digits "." digits, in units of 1/Scale
FloatOf(value) ==
    LET dot == CHOOSE p \in 1..Len(value) : Char(value, p) = "." /\ \A q \in 1..(p - 1) : Char(value, q) # "."
        fraction == SubSeq(value, dot + 1, Len(value))
        padded == SubSeq(fraction \o "00000", 1, ScaleDigits)
    IN  [float |-> ParseInt(SubSeq(value, 1, dot - 1)) * Scale + ParseInt(padded)]

NUMBER(token, heap) ==
    IF Contains(token.value, ".") THEN New(heap, "Number", [value |-> [prim |-> FloatOf(token.value)]])
    ELSE New(heap, "Number", [value |-> [prim |-> ParseInt(token.value)]])

\* the callback BOOLEAN (the name is a reserved word here)
BOOLEAN_(token, heap) ==
    New(heap, "Boolean", [value |-> [prim |-> Lower(token.value) \in {"t", "true"}]])

\* the callback of a terminal; a terminal without callback stays the Token
_call_userfunc_token(token, heap) ==
    CASE token.token = "NUMBER" -> NUMBER(token, heap)
      [] token.token = "BOOLEAN" -> BOOLEAN_(token, heap)
      [] token.token = "NULL" -> New(heap, "Null", <<>>)
      [] OTHER -> [heap |-> heap, val |-> token]

\* the callback of a rule; a rule without callback stays a Tree of the transformed children
_call_userfunc(data, items, heap) ==
    CASE data = "program" -> program(items, heap)
      [] data = "class_definition" ->
            New(heap, "ClassDefinition", [name |-> [prim |-> items[1].value], attributes |-> items[2]])
      [] data = "attribute_list" ->
            [heap |-> heap,
             val |-> [list |-> SubSeq([i \in 1..Len(items) |-> [prim |-> items[i].value]], 1, Len(items))]]
      [] data = "algorithm" -> algorithm(items, heap)
      [] data = "main_algorithm" -> main_algorithm(items, heap)
      [] data = "subroutine_definition" -> subroutine_definition(items, heap)
      [] data \in {"local_declarations", "parameter_list", "argument_list"} ->
            [heap |-> heap, val |-> [list |-> items]]
      [] data = "local_declaration" -> local_declaration(items, heap)
      [] data \in {"simple_parameter", "array_parameter", "object_parameter"} -> parameter_of(data, items, heap)
      [] data \in {"start", "parameter", "statement", "condition", "expression", "atom"} ->
            [heap |-> heap, val |-> items[1]]
      [] data = "assignment" -> assignment(items, heap)
      [] data = "for_loop" -> for_loop(items, heap)
      [] data = "while_loop" -> New(heap, "WhileLoop", [condition |-> items[1], body |-> items[2]])
      [] data = "repeat_loop" ->
            New(heap, "RepeatLoop",
                [body |-> [list |-> SubSeq(items, 1, Len(items) - 1)], condition |-> items[Len(items)]])
      [] data = "if_statement" -> if_statement(items, heap)
      [] data = "call_statement" ->
            New(heap, "CallStatement",
                [function_name |-> [prim |-> items[1].value],
                 arguments |-> IF Len(items) > 1 THEN items[2] ELSE [list |-> <<>>]])
      [] data = "return_statement" -> New(heap, "ReturnStatement", [value |-> items[1]])
      [] data = "comment" -> comment(items, heap)
      [] data = "block" -> block(items, heap)
      [] data = "variable" -> variable(items, heap)
      [] data = "range" -> [heap |-> heap, val |-> [tuple |-> <<items[1], items[2]>>]]
      [] data = "logical_or" ->
            IF Len(items) = 1 THEN [heap |-> heap, val |-> items[1]] ELSE fold_left("or", items, 2, heap, items[1])
      [] data = "logical_and" ->
            IF Len(items) = 1 THEN [heap |-> heap, val |-> items[1]] ELSE fold_left("and", items, 2, heap, items[1])
      [] data = "logical_not" -> logical_not(items, heap)
      [] data \in {"comparison", "arithmetic", "term"} ->
            IF Len(items) = 1 THEN [heap |-> heap, val |-> items[1]] ELSE fold_pairs(data, items, 2, heap, items[1])
      [] data = "comp_op" -> [heap |-> heap, val |-> comp_op(items)]
      [] data = "factor" -> factor(items, heap)
      [] data = "power" -> power(items, heap)
      [] data = "function_call" ->
            New(heap, "FunctionCall",
                [function_name |-> [prim |-> items[1].value],
                 arguments |-> IF Len(items) > 1 THEN items[2] ELSE [list |-> <<>>]])
      [] data = "length" -> New(heap, "Length", [variable |-> items[1]])
      [] data = "ceiling" -> New(heap, "Ceiling", [expression |-> items[1]])
      [] data = "floor" -> New(heap, "Floor", [expression |-> items[1]])
      [] OTHER -> [heap |-> heap, val |-> Tree(data, items)]

\* the value v with every reference moved by k places of the heap
RECURSIVE Shift(_, _)
Shift(v, k) ==
    IF "ref" \in DOMAIN v THEN [ref |-> v.ref + k]
    ELSE IF "list" \in DOMAIN v
    THEN [list |-> SubSeq([i \in 1..Len(v.list) |-> Shift(v.list[i], k)], 1, Len(v.list))]
    ELSE IF "tuple" \in DOMAIN v
    THEN [tuple |-> SubSeq([i \in 1..Len(v.tuple) |-> Shift(v.tuple[i], k)], 1, Len(v.tuple))]
    ELSE IF "data" \in DOMAIN v
    THEN Tree(v.data, SubSeq([i \in 1..Len(v.children) |-> Shift(v.children[i], k)], 1, Len(v.children)))
    ELSE v

\* the attributes with the references of the named fields moved by k places
RECURSIVE ShiftAttrs(_, _, _)
ShiftAttrs(attrs, fields, k) ==
    IF fields = {} THEN attrs
    ELSE LET f == CHOOSE g \in fields : TRUE
         IN  [ShiftAttrs(attrs, fields \ {f}, k) EXCEPT ![f] = Shift(@, k)]

\* the object with every reference it holds moved by k places
Moved(object, k) ==
    [cls |-> object.cls,
     attrs |-> ShiftAttrs(object.attrs,
                          {f \in DOMAIN object.attrs : {"ref", "list", "tuple", "data"} \cap DOMAIN object.attrs[f] # {}},
                          k)]

\* the number of objects built for the children before the i-th
RECURSIVE Offset(_, _)
Offset(parts, i) == IF i = 1 THEN 0 ELSE Offset(parts, i - 1) + Len(parts[i - 1].heap)

\* the objects built for the children, one child after the other, and the values the callbacks returned for them
Together(parts) ==
    [heap |-> SubSeq([o \in 1..Offset(parts, Len(parts) + 1) |->
                         LET i == CHOOSE j \in 1..Len(parts) : Offset(parts, j) < o /\ o <= Offset(parts, j + 1)
                         IN  Moved(parts[i].heap[o - Offset(parts, i)], Offset(parts, i))],
                     1, Offset(parts, Len(parts) + 1)),
     val |-> SubSeq([i \in 1..Len(parts) |-> Shift(parts[i].val, Offset(parts, i))], 1, Len(parts))]

\* the callback of the rule, called with the values returned for the children
_call_userfunc_of(data, parts) ==
    Let(Together(parts), LAMBDA st : _call_userfunc(data, st.val, st.heap))

\* Transformer._transform_tree: the children first, from left to right, then the callback of the rule
RECURSIVE transform_from(_)
transform_from(t) ==
    IF "token" \in DOMAIN t THEN _call_userfunc_token(t, <<>>)
    ELSE CHOOSE returned \in
             {_call_userfunc_of(t.data, parts) :
                 parts \in {SubSeq([i \in 1..Len(t.children) |-> transform_from(t.children[i])],
                                   1, Len(t.children))}} : TRUE

\* the heap of the objects built and the value returned for the root
transform(t) == Let(transform_from(t), LAMBDA st : [heap |-> st.heap, root |-> st.val])

(***************************************************************************)
(* serializer.py                                                           *)
(***************************************************************************)
\* ast_to_dict with the elements of a list taken in reverse order
RECURSIVE ast_to_dict_reversed(_, _)
ast_to_dict_reversed(heap, obj) ==
    IF "none" \in DOMAIN obj THEN NoneRec
    ELSE IF "ref" \in DOMAIN obj
    THEN LET node == heap[obj.ref]
         IN  [k \in {"type"} \cup DOMAIN node.attrs |->
                 IF k \in DOMAIN node.attrs THEN ast_to_dict_reversed(heap, node.attrs[k]) ELSE node.cls]
    ELSE IF "list" \in DOMAIN obj
    THEN [i \in 1..Len(obj.list) |-> ast_to_dict_reversed(heap, obj.list[Len(obj.list) + 1 - i])]
    ELSE IF "tuple" \in DOMAIN obj
    THEN [i \in 1..Len(obj.tuple) |-> ast_to_dict_reversed(heap, obj.tuple[Len(obj.tuple) + 1 - i])]
    ELSE IF "token" \in DOMAIN obj THEN obj.value
    ELSE IF "prim" \in DOMAIN obj THEN obj.prim
    ELSE obj

\* a dataclass object becomes {"type": class name, field: ast_to_dict(value) ...}; the node has no field
\* named type, so the tag is never overwritten
RECURSIVE ast_to_dict(_, _)
ast_to_dict(heap, obj) ==
    IF "none" \in DOMAIN obj THEN NoneRec
    ELSE IF "ref" \in DOMAIN obj
    THEN LET node == heap[obj.ref]
         IN  [k \in {"type"} \cup DOMAIN node.attrs |->
                 IF k \in DOMAIN node.attrs THEN ast_to_dict(heap, node.attrs[k]) ELSE node.cls]
    ELSE IF "list" \in DOMAIN obj THEN [i \in 1..Len(obj.list) |-> ast_to_dict(heap, obj.list[i])]
    ELSE IF "tuple" \in DOMAIN obj THEN [i \in 1..Len(obj.tuple) |-> ast_to_dict(heap, obj.tuple[i])]
    ELSE IF "token" \in DOMAIN obj THEN obj.value
    ELSE IF "prim" \in DOMAIN obj THEN obj.prim
    ELSE obj

(***************************************************************************)
(* The parse trees explored: programs with up to two class definitions, up *)
(* to MaxSubroutines subroutine definitions and a main algorithm, whose    *)
(* statements and expressions use every rule of the transformer.  A rule   *)
(* with a single child is present in some trees and absent in others, and  *)
(* the operator terminals stand where the callbacks look for them.         *)
(***************************************************************************)
\* most subroutine definitions of a program
MaxSubroutines == 2

NameToken(name) == Token("CNAME", name)

NumberToken(digits) == Token("NUMBER", digits)

VariableTree(name) == Tree("variable", <<NameToken(name)>>)

ExpressionTree(t) == Tree("expression", <<t>>)

StatementTree(t) == Tree("statement", <<t>>)

BlockTree(statements) == Tree("block", statements)

\* an atom under the whole chain of expression rules
ChainTree(t) ==
    ExpressionTree(Tree("logical_or", <<Tree("logical_and", <<Tree("logical_not", <<Tree("comparison",
        <<Tree("arithmetic", <<Tree("term", <<Tree("factor", <<Tree("power", <<Tree("atom", <<t>>)>>)>>)>>)>>)>>)>>)>>)>>))

\* n - 1, n <= 1 written with the sign U+2264, n * f(n - 1)
MinusOneTree == Tree("arithmetic", <<VariableTree("n"), Token("MINUS", "-"), NumberToken("1")>>)

BaseConditionTree ==
    Tree("condition", <<ExpressionTree(Tree("comparison",
        <<VariableTree("n"), Tree("comp_op", <<Token("LESSEQUAL", LessEqualSign)>>), NumberToken("1")>>))>>)

RecursiveTermTree ==
    Tree("term", <<VariableTree("n"), Token("STAR", "*"),
                   Tree("function_call", <<NameToken("factorial"),
                                           Tree("argument_list", <<ExpressionTree(MinusOneTree)>>)>>)>>)

\* factorial of test_recursion.py
FactorialTree ==
    Tree("subroutine_definition",
         <<NameToken("factorial"),
           Tree("parameter_list", <<Tree("parameter", <<Tree("simple_parameter", <<NameToken("n")>>)>>)>>),
           StatementTree(Tree("comment", <<Token("COMMENT", "► caso base")>>)),
           StatementTree(Tree("if_statement",
               <<BaseConditionTree,
                 BlockTree(<<StatementTree(Tree("return_statement", <<ExpressionTree(NumberToken("1"))>>))>>),
                 BlockTree(<<StatementTree(Tree("return_statement", <<ExpressionTree(RecursiveTermTree)>>))>>)>>))>>)

\* a subroutine with an array and an object parameter, local declarations, a for and a while loop
SumTree ==
    Tree("subroutine_definition",
         <<NameToken("suma"),
           Tree("parameter_list",
                <<Tree("parameter", <<Tree("array_parameter", <<NameToken("A"), ExpressionTree(VariableTree("n"))>>)>>),
                  Tree("parameter", <<Tree("object_parameter", <<NameToken("Casa"), NameToken("c")>>)>>)>>),
           Tree("local_declarations",
                <<Tree("local_declaration", <<NameToken("B"), ExpressionTree(NumberToken("10"))>>),
                  Tree("local_declaration", <<NameToken("Casa"), NameToken("d")>>)>>),
           StatementTree(Tree("assignment",
               <<VariableTree("s"), Token("ASSIGN", ":="), ExpressionTree(NumberToken("0"))>>)),
           StatementTree(Tree("for_loop",
               <<NameToken("i"), Token("ASSIGN", ":="), ExpressionTree(NumberToken("1")),
                 ExpressionTree(Tree("length", <<VariableTree("A")>>)),
                 BlockTree(<<StatementTree(Tree("assignment",
                     <<VariableTree("s"), Token("ASSIGN", ":="),
                       ExpressionTree(Tree("arithmetic",
                           <<VariableTree("s"), Token("PLUS", "+"),
                             Tree("variable", <<NameToken("A"), ExpressionTree(VariableTree("i"))>>),
                             Token("MINUS", "-"),
                             Tree("variable", <<NameToken("c"), NameToken("area")>>)>>))>>))>>)>>)),
           StatementTree(Tree("while_loop",
               <<Tree("condition", <<ExpressionTree(Tree("logical_and",
                     <<Tree("comparison", <<VariableTree("s"), Tree("comp_op", <<Token("MORETHAN", ">")>>),
                                            NumberToken("0")>>),
                       Tree("logical_not", <<Token("NOT", "not"), Token("BOOLEAN", "F")>>),
                       Token("BOOLEAN", "T")>>))>>),
                 BlockTree(<<StatementTree(Tree("assignment",
                     <<VariableTree("s"), Token("ASSIGN", ":="),
                       ExpressionTree(Tree("term", <<VariableTree("s"), Token("DIV", "div"), NumberToken("2"),
                                                     Token("STAR", "*"), VariableTree("n")>>))>>))>>)>>)),
           StatementTree(Tree("return_statement", <<ExpressionTree(VariableTree("s"))>>))>>)

\* a subroutine without parameters: a repeat loop, calls, a range, a power chain, signs, ceiling and floor
MixTree ==
    Tree("subroutine_definition",
         <<NameToken("mezcla"),
           StatementTree(Tree("repeat_loop",
               <<StatementTree(Tree("call_statement",
                     <<NameToken("ordenar"),
                       Tree("argument_list",
                            <<ExpressionTree(Tree("variable",
                                  <<NameToken("A"), Tree("range", <<ExpressionTree(NumberToken("1")),
                                                                    ExpressionTree(VariableTree("j"))>>)>>)),
                              ExpressionTree(Tree("power", <<VariableTree("a"), NumberToken("2"),
                                                             VariableTree("n")>>))>>)>>)),
                 StatementTree(Tree("call_statement", <<NameToken("avanzar")>>)),
                 Tree("condition", <<ExpressionTree(Tree("logical_or",
                     <<Token("BOOLEAN", "T"),
                       Tree("comparison", <<Tree("variable", <<NameToken("p"), NameToken("arr"),
                                                               ExpressionTree(VariableTree("i"))>>),
                                            Tree("comp_op", <<Token("EQUAL", "=")>>), Token("NULL", "NULL"),
                                            Tree("comp_op", <<Token("NOTEQUAL", NotEqualSign)>>),
                                            Token("BOOLEAN", "F")>>),
                       VariableTree("fin")>>))>>)>>)),
           StatementTree(Tree("assignment",
               <<VariableTree("x"), Token("ASSIGN", ":="),
                 ExpressionTree(Tree("arithmetic",
                     <<Tree("ceiling", <<ExpressionTree(Tree("term",
                           <<VariableTree("n"), Token("SLASH", "/"), NumberToken("2.5")>>))>>),
                       Token("PLUS", "+"),
                       Tree("floor", <<ExpressionTree(Tree("factor", <<Token("MINUS", "-"), VariableTree("n")>>))>>)>>))>>)),
           StatementTree(Tree("if_statement",
               <<Tree("condition", <<ExpressionTree(Tree("function_call", <<NameToken("listo")>>))>>),
                 BlockTree(<<>>)>>))>>)

SubroutineTrees == {FactorialTree, SumTree, MixTree}

MainTrees ==
    { Tree("main_algorithm", <<>>),
      Tree("main_algorithm",
           <<StatementTree(Tree("assignment",
               <<VariableTree("r"), Token("ASSIGN", ":="),
                 ExpressionTree(Tree("function_call",
                     <<NameToken("factorial"), Tree("argument_list", <<ExpressionTree(NumberToken("5"))>>)>>))>>))>>),
      Tree("main_algorithm",
           <<Tree("local_declarations", <<Tree("local_declaration", <<NameToken("M"),
                                                                      ExpressionTree(VariableTree("n"))>>)>>),
             StatementTree(Tree("for_loop",
                 <<NameToken("i"), Token("ASSIGN", ":="), ChainTree(NumberToken("1")),
                   ExpressionTree(VariableTree("n")),
                   BlockTree(<<StatementTree(Tree("call_statement",
                       <<NameToken("suma"),
                         Tree("argument_list", <<ExpressionTree(VariableTree("M")),
                                                 ExpressionTree(VariableTree("i"))>>)>>))>>)>>)),
             StatementTree(Tree("comment", <<Token("COMMENT", "fin")>>))>>) }

ClassTrees ==
    << Tree("class_definition", <<NameToken("Casa"), Tree("attribute_list", <<NameToken("area"), NameToken("color")>>)>>),
       Tree("class_definition", <<NameToken("Persona"), Tree("attribute_list", <<NameToken("nombre")>>)>>) >>

ParseTrees ==
    { Tree("start", <<Tree("program", SubSeq(ClassTrees, 1, c) \o <<Tree("algorithm", Append(subs, main))>>)>>) :
        c \in 0..Len(ClassTrees),
        subs \in UNION {[1..k -> SubroutineTrees] : k \in 0..MaxSubroutines},
        main \in MainTrees }

(***************************************************************************)
(* Parsing as operations: the transformer builds the AST of the parse      *)
(* tree, then ast_to_dict serializes one of the nodes built.  The          *)
(* transformer and the serializer keep no state between calls.             *)
(***************************************************************************)
InitParsing ==
    /\ text = ""
    /\ subroutine = NoneRec
    /\ param = None
    /\ called = "none"
    /\ result = NoneRec
    /\ tree \in ParseTrees
    /\ ast = NoneRec
    /\ Idle

Transform ==
    /\ called = "none"
    /\ ast' = transform(tree)
    /\ called' = "transform"
    /\ UNCHANGED <<text, subroutine, param, result, tree, others>>

AstToDict ==
    /\ called = "transform"
    /\ \E id \in 1..Len(ast.heap) :
        result' = [node |-> id, value |-> ast_to_dict(ast.heap, [ref |-> id])]
    /\ called' = "ast_to_dict"
    /\ UNCHANGED <<text, subroutine, param, tree, ast, others>>

NextParsing ==
    \/ Transform
    \/ AstToDict

SpecParsing == InitParsing /\ [][NextParsing]_vars

(***************************************************************************)
(* Properties of the parsing stage, checked under SpecParsing              *)
(***************************************************************************)
\* the references an attribute value holds, one entry per place that holds one
RECURSIVE RefsOf(_)
RefsOf(v) ==
    IF "ref" \in DOMAIN v THEN <<v.ref>>
    ELSE IF "list" \in DOMAIN v THEN Flatten([i \in 1..Len(v.list) |-> RefsOf(v.list[i])])
    ELSE IF "tuple" \in DOMAIN v THEN Flatten([i \in 1..Len(v.tuple) |-> RefsOf(v.tuple[i])])
    ELSE <<>>

\* the nodes of the AST: the objects reached from the nodes seen
RECURSIVE ReachableFrom(_, _)
ReachableFrom(heap, seen) ==
    LET held == UNION {UNION {{RefsOf(heap[p].attrs[f])[i] : i \in 1..Len(RefsOf(heap[p].attrs[f]))} :
                              f \in DOMAIN heap[p].attrs} : p \in seen}
    IN  IF held \subseteq seen THEN seen ELSE ReachableFrom(heap, seen \cup held)

\* the places <<parent, attribute, position>> of the AST that hold the node id
ParentSlots(heap, nodes, id) ==
    UNION {UNION {{<<p, f, i>> : i \in {j \in 1..Len(RefsOf(heap[p].attrs[f])) : RefsOf(heap[p].attrs[f])[j] = id}} :
                  f \in DOMAIN heap[p].attrs} : p \in nodes}

\* the subroutine_definition trees of a parse tree, in source order
SubroutineDefinitions(t) ==
    LET prog == t.children[1]
        alg == prog.children[Len(prog.children)]
    IN  SelectSeq(alg.children, LAMBDA c : c.data = "subroutine_definition")

\* the names of the subroutines list of the Algorithm object a
SubroutineNames(heap, a) ==
    LET subroutines == heap[a].attrs.subroutines.list
    IN  [i \in 1..Len(subroutines) |-> heap[subroutines[i].ref].attrs.name.prim]

\* C15: for every parse tree the transformer returns a Program; the AST has exactly one Algorithm, held by the
\* Program, and exactly one MainAlgorithm, held by that Algorithm; the subroutines list names the subroutine
\* definitions of the tree, as many and in the same order; and every node of the AST but the root is held at
\* exactly one place, the root at none.
C15_TreeShape ==
    called = "transform" =>
        /\ IsA(ast.heap, ast.root, {"Program"})
        /\ Let(ReachableFrom(ast.heap, {ast.root.ref}), LAMBDA nodes :
               LET heap == ast.heap
                   algorithms == {id \in nodes : heap[id].cls = "Algorithm"}
                   mains == {id \in nodes : heap[id].cls = "MainAlgorithm"}
               IN  /\ Cardinality(algorithms) = 1
                   /\ Cardinality(mains) = 1
                   /\ \A a \in algorithms :
                        /\ RefsOf(heap[ast.root.ref].attrs.algorithm) = <<a>>
                        /\ \A m \in mains : RefsOf(heap[a].attrs.main) = <<m>>
                        /\ SubroutineNames(heap, a) =
                               [i \in 1..Len(SubroutineDefinitions(tree)) |->
                                   SubroutineDefinitions(tree)[i].children[1].value]
                   /\ \A id \in nodes :
                        Cardinality(ParentSlots(heap, nodes, id)) = IF id = ast.root.ref THEN 0 ELSE 1)

\* a program with the subroutines suma and factorial, in this order, was transformed
C15_Witness ==
    /\ called = "transform"
    /\ Len(SubroutineDefinitions(tree)) = 2
    /\ IsA(ast.heap, ast.root, {"Program"})
    /\ SubroutineNames(ast.heap, ast.heap[ast.root.ref].attrs.algorithm.ref) = <<"suma", "factorial">>
    /\ Len(ast.heap[ast.root.ref].attrs.classes.list) = 2

\* the fields each dataclass of ast_nodes.py declares
DeclaredFields(cls) ==
    CASE cls = "Program" -> {"classes", "algorithm"}
      [] cls = "ClassDefinition" -> {"name", "attributes"}
      [] cls = "Algorithm" -> {"subroutines", "main"}
      [] cls = "Subroutine" -> {"name", "parameters", "declarations", "body"}
      [] cls = "MainAlgorithm" -> {"declarations", "body"}
      [] cls = "Parameter" -> {"name", "param_type", "class_name", "dimensions"}
      [] cls = "Declaration" -> {"name", "decl_type", "size", "class_name"}
      [] cls = "Assignment" -> {"variable", "value"}
      [] cls = "ForLoop" -> {"variable", "start", "end", "body"}
      [] cls = "WhileLoop" -> {"condition", "body"}
      [] cls = "RepeatLoop" -> {"body", "condition"}
      [] cls = "IfStatement" -> {"condition", "then_block", "else_block"}
      [] cls = "CallStatement" -> {"function_name", "arguments"}
      [] cls = "ReturnStatement" -> {"value"}
      [] cls = "Comment" -> {"text"}
      [] cls = "Block" -> {"statements"}
      [] cls \in {"Number", "Boolean"} -> {"value"}
      [] cls = "Null" -> {}
      [] cls = "Variable" ->
            {"name", "indices", "field", "field_indices", "is_range", "range_start", "range_end"}
      [] cls = "BinaryOp" -> {"operator", "left", "right"}
      [] cls = "UnaryOp" -> {"operator", "operand"}
      [] cls = "FunctionCall" -> {"function_name", "arguments"}
      [] cls = "Length" -> {"variable"}
      [] cls \in {"Ceiling", "Floor"} -> {"expression"}

\* out is the faithful image of the value v: a node gives an object whose keys are type and the declared
\* fields of its class, type being the name of the class and each field the faithful image of the attribute; a
\* list gives a list of the images, as many and in the same order; None gives None and a primitive itself
RECURSIVE Faithful(_, _, _)
Faithful(heap, v, out) ==
    IF "ref" \in DOMAIN v
    THEN LET node == heap[v.ref]
         IN  /\ DOMAIN out = {"type"} \cup DeclaredFields(node.cls)
             /\ out.type = node.cls
             /\ \A f \in DeclaredFields(node.cls) : Faithful(heap, node.attrs[f], out[f])
    ELSE IF "list" \in DOMAIN v
    THEN /\ DOMAIN out = 1..Len(v.list)
         /\ \A i \in 1..Len(v.list) : Faithful(heap, v.list[i], out[i])
    ELSE IF "none" \in DOMAIN v THEN out = NoneRec
    ELSE IF "prim" \in DOMAIN v THEN out = v.prim
    ELSE TRUE

\* C16: what ast_to_dict returns for a node of any kind is its faithful image: type is the name of the class
\* of the node, there is one key per declared field, nested nodes are serialized the same way, a list keeps its
\* length and its order, and primitive values and None are unchanged.
C16_SerializationIsFaithful ==
    called = "ast_to_dict" => Faithful(ast.heap, [ref |-> result.node], result.value)

\* the Subroutine suma was serialized: three nested levels, lists of several nodes, None and primitives
C16_Witness ==
    /\ called = "ast_to_dict"
    /\ result.value.type = "Subroutine"
    /\ result.value.name = "suma"
    /\ Len(result.value.parameters) = 2
    /\ result.value.parameters[1].class_name = NoneRec
    /\ result.value.parameters[2].class_name = "Casa"
    /\ Len(result.value.body) = 4
    /\ result.value.body[2].type = "ForLoop"
    /\ result.value.body[2].body.statements[1].value.operator = "-"

(***************************************************************************)
(* Properties of the tools for iterative algorithms, checked under         *)
(* SpecAnalyzers                                                           *)
(***************************************************************************)
\* the number of enclosing loops of each loop statement of the statements, in depth-first pre-order: a loop
\* body is one level deeper, a then or else branch is at the level of its conditional
RECURSIVE EnclosingLoops(_, _)
EnclosingLoops(statements, level) ==
    Flatten([i \in 1..Len(statements) |->
        LET stmt == statements[i]
        IN  IF stmt.type \in {"ForLoop", "WhileLoop"}
            THEN <<level>> \o EnclosingLoops(stmt.body.statements, level + 1)
            ELSE IF stmt.type = "RepeatLoop" THEN <<level>> \o EnclosingLoops(stmt.body, level + 1)
            ELSE IF stmt.type = "IfStatement"
            THEN EnclosingLoops(stmt.then_block.statements, level)
                 \o (IF IsNone(stmt.else_block) THEN <<>> ELSE EnclosingLoops(stmt.else_block.statements, level))
            ELSE <<>>])

\* C21: in the result of analyze_loops, total_loops is the number of loop statements of the subroutine at any
\* depth (for, while and repeat), and the nesting_level of each loop record is the number of loops that
\* enclose the loop: a loop body adds 1, a then or else branch adds nothing.
C21_NestingLevelCountsEnclosingLoops ==
    called = "analyze_loops" =>
        /\ ~IsRaised(result)
        /\ result.total_loops = Len(EnclosingLoops(subroutine.body, 0))
        /\ [i \in 1..Len(result.loops) |-> result.loops[i].nesting_level] = EnclosingLoops(subroutine.body, 0)

(***************************************************************************)
(* Properties of the expression callbacks, checked under SpecParsing       *)
(***************************************************************************)
\* the subtrees of a parse tree, the tree itself included
RECURSIVE Subtrees(_)
Subtrees(t) ==
    IF "token" \in DOMAIN t THEN {}
    ELSE {t} \cup UNION {Subtrees(t.children[i]) : i \in 1..Len(t.children)}

\* the AST the transformer builds for a subtree, serialized
AstOf(t) == Let(transform_from(t), LAMBDA st : ast_to_dict(st.heap, st.val))

\* the objects of a class that the transformer built
Built(cls) == {o \in 1..Len(ast.heap) : ast.heap[o].cls = cls}

\* the applications of not and of a sign in the parse tree: the operator terminal, then the operand
UnaryTrees(t) ==
    {s \in Subtrees(t) : s.data \in {"logical_not", "factor"} /\ Len(s.children) = 2}

\* the number of applications of not and of a sign in the parse tree
RECURSIVE UnaryCount(_)
UnaryCount(t) ==
    IF "token" \in DOMAIN t THEN 0
    ELSE (IF t.data \in {"logical_not", "factor"} /\ Len(t.children) = 2 THEN 1 ELSE 0)
         + Len(Flatten([i \in 1..Len(t.children) |-> [k \in 1..UnaryCount(t.children[i]) |-> 1]]))

\* the callback of the application s returns UnaryOp(the operator written, the AST of the operand)
WrapsOperand(s) ==
    Let(transform_from(s), LAMBDA st :
        /\ IsA(st.heap, st.val, {"UnaryOp"})
        /\ st.heap[st.val.ref].attrs.operator = [prim |-> s.children[1].value]
        /\ IsA(st.heap, st.heap[st.val.ref].attrs.operand, ExpressionClasses)
        /\ ast_to_dict(st.heap, st.heap[st.val.ref].attrs.operand) = AstOf(s.children[2]))

\* C22: a not or a sign is wrapped around its operand: one UnaryOp is built for each application of not, + or
\* - in the parse tree, it is UnaryOp(operator = the operator written, operand = the AST of the operand), and
\* the operand of a UnaryOp is an expression node: it is not dropped and is not a raw token.
C22_UnaryWrapsOperand ==
    called = "transform" =>
        /\ Cardinality(Built("UnaryOp")) = UnaryCount(tree)
        /\ \A o \in Built("UnaryOp") : IsA(ast.heap, ast.heap[o].attrs.operand, ExpressionClasses)
        /\ \A s \in UnaryTrees(tree) : WrapsOperand(s)

\* the chains of the parse tree: operands separated by or, and or ^, which the tree does not keep, or by the
\* comparison, additive or multiplicative operators, which stand between their operands
OperatorChains(t) ==
    {s \in Subtrees(t) :
        \/ s.data \in {"logical_or", "logical_and", "power"} /\ Len(s.children) >= 2
        \/ s.data \in {"comparison", "arithmetic", "term"} /\ Len(s.children) >= 3 /\ Len(s.children) % 2 = 1}

\* the k-th operand of a chain, and the operator written before it
Operand(s, k) ==
    IF s.data \in {"logical_or", "logical_and", "power"} THEN s.children[k] ELSE s.children[2 * k - 1]

OperatorBefore(s, k) ==
    LET written == s.children[2 * k - 2]
        sign == IF "token" \in DOMAIN written THEN written.value ELSE written.children[1].value
    IN  IF s.data = "logical_or" THEN "or"
        ELSE IF s.data = "logical_and" THEN "and"
        ELSE IF s.data = "power" THEN "^"
        ELSE IF sign = LessEqualSign THEN "<="
        ELSE IF sign = GreaterEqualSign THEN ">="
        ELSE IF sign = NotEqualSign THEN "!="
        ELSE sign

OperandCount(s) ==
    IF s.data \in {"logical_or", "logical_and", "power"} THEN Len(s.children) ELSE (Len(s.children) + 1) \div 2

\* ((x1 op x2) op x3) ... xk, and xi ^ (... ^ xn)
RECURSIVE LeftNested(_, _), RightNested(_, _)
LeftNested(s, k) ==
    IF k = 1 THEN AstOf(Operand(s, 1))
    ELSE [type |-> "BinaryOp", operator |-> OperatorBefore(s, k), left |-> LeftNested(s, k - 1),
          right |-> AstOf(Operand(s, k))]

RightNested(s, i) ==
    IF i = OperandCount(s) THEN AstOf(Operand(s, i))
    ELSE [type |-> "BinaryOp", operator |-> "^", left |-> AstOf(Operand(s, i)), right |-> RightNested(s, i + 1)]

\* the number of operators of the chains of the parse tree
RECURSIVE OperatorCount(_)
OperatorCount(t) ==
    IF "token" \in DOMAIN t THEN 0
    ELSE (IF t \in OperatorChains(t) THEN OperandCount(t) - 1 ELSE 0)
         + Len(Flatten([i \in 1..Len(t.children) |-> [k \in 1..OperatorCount(t.children[i]) |-> 1]]))

\* C23: the chains are folded by associativity: a chain x1 op x2 ... op xk of or, and, comparison, additive or
\* multiplicative operators becomes the left-nested BinaryOp ((x1 op x2) op x3) ..., each operator with its
\* own right operand, a power chain a ^ b ^ c becomes BinaryOp('^', a, BinaryOp('^', b, c)), and one BinaryOp
\* is built for each operator.
C23_ChainsFoldByAssociativity ==
    called = "transform" =>
        /\ Cardinality(Built("BinaryOp")) = OperatorCount(tree)
        /\ \A s \in OperatorChains(tree) :
              AstOf(s) = IF s.data = "power" THEN RightNested(s, 1) ELSE LeftNested(s, OperandCount(s))

\* the transformer folded s + A[i] - c.area, s div 2 * n, p.arr[i] = NULL != F and a ^ 2 ^ n
C23_Witness ==
    /\ called = "transform"
    /\ \E s \in OperatorChains(tree) :
          /\ s.data = "arithmetic"
          /\ OperandCount(s) = 3
          /\ AstOf(s).operator = "-"
          /\ AstOf(s).left.operator = "+"
          /\ AstOf(s).right.field = "area"
    /\ \E s \in OperatorChains(tree) :
          /\ s.data = "power"
          /\ OperandCount(s) = 3
          /\ AstOf(s).left.name = "a"
          /\ AstOf(s).right.type = "BinaryOp"
          /\ AstOf(s).right.right.name = "n"
    /\ \E s \in OperatorChains(tree) : s.data = "comparison" /\ OperandCount(s) = 3 /\ AstOf(s).operator = "!="
    /\ \E s \in OperatorChains(tree) : s.data = "term" /\ OperandCount(s) = 3 /\ AstOf(s).left.operator = "div"
    /\ \E s \in OperatorChains(tree) : s.data = "logical_or" /\ OperandCount(s) = 3
    /\ \E s \in OperatorChains(tree) : s.data = "logical_and" /\ OperandCount(s) = 3

(***************************************************************************)
(* Properties of count_operations_in_loop, checked under SpecAnalyzers     *)
(***************************************************************************)
\* the number of statements of the list, at its top level, whose class is one of the classes
TopLevelCount(statements, classes) == Cardinality({i \in 1..Len(statements) : statements[i].type \in classes})

\* C24: count_operations_in_loop returns max(1, A + C + 10 L), where A, C and L are the numbers of Assignment,
\* CallStatement and loop statements at the top level of the list: a return, an if or a comment adds nothing,
\* and an empty list costs 1.
C24_OperationCount ==
    called = "count_operations_in_loop" =>
        result.value = Max(1, TopLevelCount(subroutine.body, {"Assignment"})
                              + TopLevelCount(subroutine.body, {"CallStatement"})
                              + 10 * TopLevelCount(subroutine.body, LoopTypes))

\* a list of a loop and an assignment was counted: 11
C24_Witness ==
    /\ called = "count_operations_in_loop"
    /\ Len(subroutine.body) = 2
    /\ subroutine.body[1].type = "ForLoop"
    /\ subroutine.body[2].type = "Assignment"
    /\ result.value = 11

(***************************************************************************)
(* Costs of unknown order, checked under Spec                              *)
(***************************************************************************)
\* costs that are no key of the lookup and hold no n followed by digits
UnknownCosts == {"2^n", "sqrt(n)"}

\* the texts "T(n) = aT(n/b) + f" with a >= 1 written or left out, b >= 2 and f of unknown order, wrapped in
\* O(...), in parentheses or bare
UnknownOrderRecurrences ==
    {[text |-> DivideText(coef, "", b, Wrapped(w, f), " "), a |-> IF coef = "" THEN 1 ELSE ParseInt(coef), b |-> b] :
        <<coef, b, w, f>> \in
            {q \in (CoefTexts \X (2..MaxB) \X Wraps \X UnknownCosts) : q[1] # "0"}}

\* "n^c log n" as apply_master_theorem writes it: c = log_b(a) with two decimals, without them when they are
\* 00, and "n log n" when a = b
CaseTwoComplexity(a, b) ==
    IF a = b THEN "n log n"
    ELSE Replace("n^" \o Format2f(log_ratio(a, b).value) \o " log n", ".00", "")

\* C26: when f(n) is no key of the fixed lookup and holds no n followed by an optional ^ and digits (2^n,
\* sqrt(n)), apply_master_theorem answers case 2 with "n^c log n", c = log_b(a), for every a >= 1 and b >= 2.
C26_UnknownOrderIsCaseTwo ==
    called = "apply_master_theorem" =>
        \A r \in UnknownOrderRecurrences :
            text = r.text =>
                /\ ~IsRaised(result)
                /\ result.success
                /\ result.case = 2
                /\ result.complexity = CaseTwoComplexity(r.a, r.b)

\* apply_master_theorem has answered T(n) = 4T(n/2) + O(2^n) as case 2 with n^2 log n
C26_Witness ==
    /\ called = "apply_master_theorem"
    /\ text = "T(n) = 4T(n/2) + O(2^n)"
    /\ ~IsRaised(result)
    /\ result.case = 2
    /\ result.f_n = "2^n"
    /\ result.complexity = "n^2 log n"

(***************************************************************************)
(* Analyzer calls of several threads on one AST.  Each thread calls one    *)
(* analyzer after another on a subroutine of the shared AST.  analyze_loops*)
(* runs statement by statement: its locals loops_info and max_nesting and  *)
(* the invocations of its inner analyze_statements are kept per call, so   *)
(* that calls of different threads interleave inside the walk.  The other  *)
(* analyzers hold only locals that no inner function rebinds and run as    *)
(* one step.                                                               *)
(***************************************************************************)
Threads == {"t1", "t2"}

\* the calls one thread makes
MaxCalls == 2

Analyzers ==
    {"find_recursive_calls", "detect_base_case", "analyze_recursion_parameter", "analyze_loops",
     "count_operations_in_loop", "detect_conditionals"}

\* while (n > 0) do begin end
flat_while == Subroutine("f", <<Parameter("n")>>, <<>>, <<WhileLoop(BinaryOp(">", n_var, Number(0)), Block(<<>>))>>)

\* if (n <= 1) then begin for i := 1 to n do begin end end else begin repeat x := n until (n = 0) end
branching ==
    Subroutine("f", <<Parameter("n")>>, <<>>,
        << IfStatement(base_condition,
               Block(<<ForLoop("i", Number(1), n_var, Block(<<>>))>>),
               Block(<<RepeatLoop(<<Assignment(Variable("x"), n_var)>>, BinaryOp("=", n_var, Number(0)))>>)) >>)

\* ast.algorithm.subroutines of the AST the threads share
SharedSubroutines == <<factorial, nested_for, flat_while, branching>>

\* where the max_nesting of the analyze_loops invocation of a thread lives: a local of that invocation
max_nesting_global(thread) == "module"

max_nesting_cell(thread) == thread

\* one invocation of analyze_statements: its arguments, the index of its for loop, and whether its first
\* statement (the update of max_nesting) has run
Invocation(statements, nesting, path) ==
    [statements |-> statements, nesting |-> nesting, path |-> path, i |-> 0, entered |-> FALSE]

NoCall ==
    [pc |-> "idle", function |-> "none", subroutine |-> 0, param |-> None, stack |-> <<>>, loops_info |-> <<>>,
     returned |-> NoneRec, made |-> 0]

\* what a call of the analyzer returns when nothing else runs
Outcome(function, sub, param_name) ==
    CASE function = "find_recursive_calls" -> find_recursive_calls(sub)
      [] function = "detect_base_case" -> detect_base_case(sub)
      [] function = "analyze_recursion_parameter" -> analyze_recursion_parameter(sub, param_name)
      [] function = "analyze_loops" -> analyze_loops(sub)
      [] function = "count_operations_in_loop" -> [value |-> count_operations_in_loop(sub.body)]
      [] function = "detect_conditionals" -> [value |-> detect_conditionals(sub)]

InitCalls ==
    /\ text = ""
    /\ subroutine = NoneRec
    /\ param = None
    /\ called = "none"
    /\ result = NoneRec
    /\ tree = NoneRec
    /\ ast = NoneRec
    /\ shared_ast = SharedSubroutines
    /\ calls = [t \in Threads |-> NoCall]
    /\ max_nesting = [c \in {max_nesting_cell(t) : t \in Threads} |-> 0]
    /\ agent = <<>>
    /\ extraction = <<>>
    /\ cache = <<>>
    /\ requests = <<>>

CallsFrame == UNCHANGED <<text, subroutine, param, called, result, tree, ast, shared_ast, agent, extraction, cache, requests>>

\* a thread calls an analyzer; analyze_loops binds its locals and invokes analyze_statements on the body
StartCall(t) ==
    /\ calls[t].pc \in {"idle", "returned"}
    /\ calls[t].made < MaxCalls
    /\ \E function \in Analyzers, index \in 1..Len(shared_ast), param_name \in ParamNames :
        /\ function # "analyze_recursion_parameter" => param_name = "n"
        /\ calls' = [calls EXCEPT ![t] =
                        [pc |-> "running", function |-> function, subroutine |-> index,
                         param |-> IF function = "analyze_recursion_parameter" THEN param_name ELSE None,
                         stack |-> IF function = "analyze_loops"
                                   THEN <<Invocation(shared_ast[index].body, 0, "body")>> ELSE <<>>,
                         loops_info |-> <<>>, returned |-> NoneRec, made |-> calls[t].made + 1]]
        /\ max_nesting' = IF function = "analyze_loops"
                          THEN [max_nesting EXCEPT ![max_nesting_cell(t)] = 0] ELSE max_nesting
    /\ CallsFrame

\* max_nesting = max(max_nesting, nesting), the first statement of analyze_statements
EnterStatements(t) ==
    /\ calls[t].pc = "running"
    /\ calls[t].stack # <<>>
    /\ ~calls[t].stack[1].entered
    /\ max_nesting' = [max_nesting EXCEPT ![max_nesting_cell(t)] = Max(@, calls[t].stack[1].nesting)]
    /\ calls' = [calls EXCEPT ![t].stack[1].entered = TRUE]
    /\ CallsFrame

\* one round of the for loop of analyze_statements
VisitStatement(t) ==
    /\ calls[t].pc = "running"
    /\ calls[t].stack # <<>>
    /\ calls[t].stack[1].entered
    /\ calls[t].stack[1].i < Len(calls[t].stack[1].statements)
    /\ LET top == calls[t].stack[1]
           stmt == top.statements[top.i + 1]
           nesting == top.nesting
           current_path == top.path \o "[" \o ToString(top.i) \o "]"
           rest == <<[top EXCEPT !.i = @ + 1]>> \o Tail(calls[t].stack)
           appended(data) == Append(calls[t].loops_info, data)
       IN  calls' = [calls EXCEPT ![t] =
               IF IsInstance(stmt, "ForLoop") THEN
                   [@ EXCEPT !.loops_info = appended(loop_data("FOR", stmt.variable, _expression_to_string(stmt.start),
                                                               _expression_to_string(stmt.end), nesting, current_path)),
                             !.stack = <<Invocation(stmt.body.statements, nesting + 1, current_path \o ".body")>> \o rest]
               ELSE IF IsInstance(stmt, "WhileLoop") THEN
                   [@ EXCEPT !.loops_info = appended(loop_data("WHILE", "condition-based", "unknown", "unknown",
                                                               nesting, current_path)),
                             !.stack = <<Invocation(stmt.body.statements, nesting + 1, current_path \o ".body")>> \o rest]
               ELSE IF IsInstance(stmt, "RepeatLoop") THEN
                   (IF HasAttr(stmt, "statements")
                    THEN [@ EXCEPT !.loops_info = appended(loop_data("REPEAT", "condition-based", "unknown", "unknown",
                                                                     nesting, current_path)),
                                   !.stack = <<Invocation(stmt.statements, nesting + 1, current_path \o ".body")>> \o rest]
                    ELSE [@ EXCEPT !.pc = "returned", !.stack = <<>>, !.loops_info = <<>>,
                                   !.returned = Raised("AttributeError")])
               ELSE IF IsInstance(stmt, "IfStatement") THEN
                   [@ EXCEPT !.stack =
                        <<Invocation(stmt.then_block.statements, nesting, current_path \o ".then")>>
                        \o (IF ~IsNone(stmt.else_block)
                            THEN <<Invocation(stmt.else_block.statements, nesting, current_path \o ".else")>>
                            ELSE <<>>)
                        \o rest]
               ELSE [@ EXCEPT !.stack = rest]]
    /\ UNCHANGED max_nesting
    /\ CallsFrame

\* the for loop of analyze_statements is over: the invocation returns to its caller
LeaveStatements(t) ==
    /\ calls[t].pc = "running"
    /\ calls[t].stack # <<>>
    /\ calls[t].stack[1].entered
    /\ calls[t].stack[1].i = Len(calls[t].stack[1].statements)
    /\ calls' = [calls EXCEPT ![t].stack = Tail(@)]
    /\ UNCHANGED max_nesting
    /\ CallsFrame

\* analyze_loops returns its record
ReturnLoops(t) ==
    /\ calls[t].pc = "running"
    /\ calls[t].function = "analyze_loops"
    /\ calls[t].stack = <<>>
    /\ calls' = [calls EXCEPT ![t].pc = "returned",
                              ![t].returned = [total_loops |-> Len(calls[t].loops_info),
                                               max_nesting |-> max_nesting[max_nesting_cell(t)],
                                               loops |-> calls[t].loops_info],
                              ![t].loops_info = <<>>]
    /\ UNCHANGED max_nesting
    /\ CallsFrame

\* one of the other analyzers runs and returns
ReturnAnalyzer(t) ==
    /\ calls[t].pc = "running"
    /\ calls[t].function # "analyze_loops"
    /\ calls' = [calls EXCEPT ![t].pc = "returned",
                              ![t].returned = Outcome(calls[t].function, shared_ast[calls[t].subroutine],
                                                      calls[t].param)]
    /\ UNCHANGED max_nesting
    /\ CallsFrame

NextCalls ==
    \E t \in Threads :
        \/ StartCall(t)
        \/ EnterStatements(t)
        \/ VisitStatement(t)
        \/ LeaveStatements(t)
        \/ ReturnLoops(t)
        \/ ReturnAnalyzer(t)

SpecCalls == InitCalls /\ [][NextCalls]_vars

(***************************************************************************)
(* Properties of analyzer calls on a shared AST, checked under SpecCalls   *)
(***************************************************************************)
\* C25: the analyzers are pure and stateless: after any sequence of calls, and with the calls of another
\* thread interleaved, the AST is the one the calls were given, and what a call returns is what the analyzer
\* returns for its arguments alone (the max_nesting of an analyze_loops call is never that of a deeper
\* subroutine analysed before or at the same time).
C25_AnalyzersPureAndStateless ==
    /\ shared_ast = SharedSubroutines
    /\ \A t \in Threads :
        calls[t].pc = "returned" =>
            calls[t].returned = Outcome(calls[t].function, SharedSubroutines[calls[t].subroutine], calls[t].param)

\* a thread has got max_nesting = 1 for the flat while loop in its second call, while the other thread is
\* inside analyze_loops on the nested for loops with its max_nesting at 2
C25_Witness ==
    /\ calls["t1"].pc = "returned"
    /\ calls["t1"].made = 2
    /\ calls["t1"].function = "analyze_loops"
    /\ SharedSubroutines[calls["t1"].subroutine] = flat_while
    /\ calls["t1"].returned.max_nesting = 1
    /\ calls["t2"].pc = "running"
    /\ calls["t2"].function = "analyze_loops"
    /\ SharedSubroutines[calls["t2"].subroutine] = nested_for
    /\ max_nesting[max_nesting_cell("t2")] = 2

(***************************************************************************)
(* BaseAgent.run_with_tool_loop.  One step is one round of its for loop:   *)
(* call_claude returns a response, chosen freely among Responses, and the  *)
(* round handles it to the end.  agent.responses keeps what call_claude    *)
(* has returned so far.                                                    *)
(***************************************************************************)
\* the largest max_iterations explored
MaxIterations == 3

\* the keys of self.tool_functions
tool_functions == Analyzers

TextBlock(t) == [type |-> "text", text |-> t]

ToolUseBlock(id, name, input) == [type |-> "tool_use", id |-> id, name |-> name, input |-> input]

Response(stop_reason, content) == [stop_reason |-> stop_reason, content |-> content]

\* the responses of the model explored: final answers with and without text, requests for one or two tools
\* of the agent with arguments the tool accepts or not, a request for a tool the agent does not have, a
\* request without any block, and an answer cut at max_tokens
Responses ==
    { Response("end_turn", <<TextBlock("{"), TextBlock("}")>>),
      Response("end_turn", <<ToolUseBlock("toolu_1", "analyze_loops", "subroutine")>>),
      Response("tool_use", <<ToolUseBlock("toolu_1", "analyze_loops", "subroutine")>>),
      Response("tool_use", <<TextBlock("I will use the tools"),
                             ToolUseBlock("toolu_1", "find_recursive_calls", "subroutine"),
                             ToolUseBlock("toolu_2", "detect_base_case", "node")>>),
      Response("tool_use", <<ToolUseBlock("toolu_1", "web_search", "query")>>),
      Response("tool_use", <<>>),
      Response("max_tokens", <<TextBlock("{")>>) }

\* tool_func(**tool_input): the tools take their argument under the name subroutine
tool_func(tool_name, tool_input) ==
    IF tool_input = "subroutine" THEN [tool |-> tool_name, value |-> "facts"] ELSE Raised("TypeError")

\* execute_tool answering an unknown tool with an error record
execute_tool_lenient(tool_name, tool_input) ==
    IF tool_name \notin tool_functions THEN [error |-> "ValueError", tool |-> tool_name, input |-> tool_input]
    ELSE Let(tool_func(tool_name, tool_input), LAMBDA returned :
             IF IsRaised(returned) THEN [error |-> returned.raised, tool |-> tool_name, input |-> tool_input]
             ELSE returned)

execute_tool(tool_name, tool_input) ==
    IF tool_name \notin tool_functions THEN Raised("ValueError")
    ELSE Let(tool_func(tool_name, tool_input), LAMBDA returned :
             IF IsRaised(returned) THEN [error |-> returned.raised, tool |-> tool_name, input |-> tool_input]
             ELSE returned)

\* json.dumps(tool_result, ensure_ascii=False)
json_dumps(value) == [json |-> value]

\* the loop over response.content that fills tool_results, from block i on; the list is [value |-> it]
RECURSIVE tool_results_from(_, _, _)
tool_results_from(content, i, tool_results) ==
    IF i > Len(content) THEN [value |-> tool_results]
    ELSE IF content[i].type # "tool_use" THEN tool_results_from(content, i + 1, tool_results)
    ELSE Let(execute_tool(content[i].name, content[i].input), LAMBDA tool_result :
             IF IsRaised(tool_result) THEN tool_result
             ELSE tool_results_from(content, i + 1,
                      Append(tool_results, [type |-> "tool_result", tool_use_id |-> content[i].id,
                                            content |-> json_dumps(tool_result)])))

\* the loop over response.content that joins the text blocks, from block i on
RECURSIVE final_text_from(_, _)
final_text_from(content, i) ==
    IF i > Len(content) THEN ""
    ELSE (IF content[i].type = "text" THEN content[i].text ELSE "") \o final_text_from(content, i + 1)

InitAgent ==
    /\ text = ""
    /\ subroutine = NoneRec
    /\ param = None
    /\ called = "none"
    /\ result = NoneRec
    /\ tree = NoneRec
    /\ ast = NoneRec
    /\ shared_ast = <<>>
    /\ calls = <<>>
    /\ max_nesting = <<>>
    /\ \E max_iterations \in 0..MaxIterations :
        agent = [pc |-> "running", max_iterations |-> max_iterations, iteration |-> 0,
                 messages |-> <<[role |-> "user", content |-> "initial_prompt"]>>,
                 responses |-> <<>>, returned |-> NoneRec]
    /\ extraction = <<>>
    /\ cache = <<>>
    /\ requests = <<>>

AgentFrame == UNCHANGED <<text, subroutine, param, called, result, tree, ast, shared_ast, calls, max_nesting, extraction, cache, requests>>

\* a round whose response stops with end_turn
ModelEndsTurn ==
    /\ agent.pc = "running"
    /\ agent.iteration < agent.max_iterations
    /\ \E response \in Responses :
        /\ response.stop_reason = "end_turn"
        /\ agent' = [agent EXCEPT !.pc = "returned",
                                  !.responses = Append(@, response),
                                  !.returned = [success |-> TRUE, response |-> final_text_from(response.content, 1),
                                                iterations |-> agent.iteration + 1]]
    /\ AgentFrame

\* a round whose response stops with tool_use
ModelUsesTools ==
    /\ agent.pc = "running"
    /\ agent.iteration < agent.max_iterations
    /\ \E response \in Responses :
        /\ response.stop_reason = "tool_use"
        /\ LET asked == Append(agent.messages, [role |-> "assistant", content |-> response.content])
               tool_results == tool_results_from(response.content, 1, <<>>)
           IN  agent' = IF IsRaised(tool_results)
                        THEN [agent EXCEPT !.pc = "raised", !.responses = Append(@, response), !.messages = asked,
                                           !.returned = tool_results]
                        ELSE [agent EXCEPT !.responses = Append(@, response),
                                           !.messages = Append(asked, [role |-> "user",
                                                                       content |-> tool_results.value]),
                                           !.iteration = @ + 1]
    /\ AgentFrame

\* a round whose response stops for any other reason
ModelStopsOtherwise ==
    /\ agent.pc = "running"
    /\ agent.iteration < agent.max_iterations
    /\ \E response \in Responses :
        /\ response.stop_reason \notin {"end_turn", "tool_use"}
        /\ agent' = [agent EXCEPT !.pc = "returned",
                                  !.responses = Append(@, response),
                                  !.returned = [success |-> FALSE, error |-> "Stop reason inesperado",
                                                iterations |-> agent.iteration + 1]]
    /\ AgentFrame

\* the for loop is over
IterationsExceeded ==
    /\ agent.pc = "running"
    /\ agent.iteration = agent.max_iterations
    /\ agent' = [agent EXCEPT !.pc = "returned",
                              !.returned = [success |-> FALSE, error |-> "Se excedió el máximo de iteraciones",
                                            iterations |-> agent.max_iterations]]
    /\ AgentFrame

NextAgent ==
    \/ ModelEndsTurn
    \/ ModelUsesTools
    \/ ModelStopsOtherwise
    \/ IterationsExceeded

\* call_claude returns and the loop goes on: run_with_tool_loop is sequential code
SpecAgent == InitAgent /\ [][NextAgent]_vars /\ WF_vars(NextAgent)

(***************************************************************************)
(* Properties of run_with_tool_loop, checked under SpecAgent               *)
(***************************************************************************)
\* the tool_use blocks of a response
ToolUses(response) == {i \in 1..Len(response.content) : response.content[i].type = "tool_use"}

AsksUnknownTool(response) ==
    /\ response.stop_reason = "tool_use"
    /\ \E i \in ToolUses(response) : response.content[i].name \notin tool_functions

\* at most max_iterations model calls
BoundedCalls == Len(agent.responses) <= agent.max_iterations

\* what the result record says, by the responses received
ResultByResponses ==
    agent.pc = "returned" =>
        LET received == agent.responses
            made == Len(received)
        IN  /\ \A j \in 1..(made - 1) : received[j].stop_reason = "tool_use"
            /\ IF made > 0 /\ received[made].stop_reason = "end_turn"
               THEN agent.returned.success /\ agent.returned.iterations = made
               ELSE IF made > 0 /\ received[made].stop_reason # "tool_use"
               THEN ~agent.returned.success /\ agent.returned.iterations = made
               ELSE /\ ~agent.returned.success
                    /\ agent.returned.iterations = agent.max_iterations
                    /\ made = agent.max_iterations

\* each response that was followed by a further round has its content and, for each of its tool_use blocks,
\* exactly one tool_result with the id of the block in the two messages appended for it
ToolResultsPaired ==
    \A j \in 1..agent.iteration :
        LET response == agent.responses[j]
            tool_results == agent.messages[2 * j + 1].content
        IN  /\ agent.messages[2 * j] = [role |-> "assistant", content |-> response.content]
            /\ agent.messages[2 * j + 1].role = "user"
            /\ \A i \in ToolUses(response) :
                Cardinality({k \in 1..Len(tool_results) : tool_results[k].tool_use_id = response.content[i].id}) = 1
            /\ Len(tool_results) = Cardinality(ToolUses(response))

\* run_with_tool_loop raises exactly when the last response asks for a tool the agent does not have
RaisedByUnknownTool ==
    /\ agent.pc = "raised" =>
        /\ agent.returned = Raised("ValueError")
        /\ AsksUnknownTool(agent.responses[Len(agent.responses)])
    /\ \A j \in 1..Len(agent.responses) :
        AsksUnknownTool(agent.responses[j]) => agent.pc = "raised" /\ j = Len(agent.responses)

\* C27 as stated: run_with_tool_loop always ends with a result record after at most max_iterations model
\* calls, whatever the model responds: success on the first end_turn, failure on the first stop reason that
\* is neither end_turn nor tool_use, failure with iterations = max_iterations when every response asks for
\* tools, and every tool_use block answered by exactly one tool_result before the next model call.
C27_AlwaysReturnsRecord ==
    /\ [](BoundedCalls /\ ResultByResponses /\ ToolResultsPaired)
    /\ <>(agent.pc = "returned")

\* C27 amended: the same, for the responses whose tool_use blocks name tools of the agent; a tool_use
\* response naming any other tool ends run_with_tool_loop with ValueError instead of a result record.
C27_ReturnsRecordOrRaises ==
    /\ [](BoundedCalls /\ ResultByResponses /\ ToolResultsPaired /\ RaisedByUnknownTool)
    /\ <>(agent.pc \in {"returned", "raised"})

\* three rounds of tools used up max_iterations = 3, one of them with two tool_use blocks
C27_Witness ==
    /\ agent.pc = "returned"
    /\ agent.max_iterations = 3
    /\ ~agent.returned.success
    /\ agent.returned.iterations = 3
    /\ \A j \in 1..3 : agent.responses[j].stop_reason = "tool_use"
    /\ \E j \in 1..3 : Len(agent.messages[2 * j + 1].content) = 2

(***************************************************************************)
(* AnalysisOrchestrator._analyze_recursive and _analyze_iterative on the   *)
(* answer of the extraction agent.  A dict is a function from its keys; a  *)
(* pydantic object is the record of its fields.                            *)
(***************************************************************************)
\* dict.get(key, default)
Get(dict, key, default) == IF key \in DOMAIN dict THEN dict[key] ELSE default

\* `if value` / `not value` for a dict or None
Falsy(value) == IsNone(value) \/ DOMAIN value = {}

Absent == [present |-> FALSE]

Present(value) == [present |-> TRUE, value |-> value]

\* {key: value}, or {} when the key is absent
Entry(key, option) == IF option.present THEN [k \in {key} |-> option.value] ELSE <<>>

ExtractedFunctions == {"T(n) = T(n-1) + O(1)", "T(n) = 2T(n/2) + O(n)"}

\* the objects an agent writes for one case
CaseObjects ==
    {<<>>, [description |-> "always"], [function |-> "", description |-> "none"]}
    \cup {[function |-> f] : f \in ExtractedFunctions}
    \cup {[function |-> f, condition |-> "n = 0", exists |-> FALSE, description |-> "sorted"] : f \in ExtractedFunctions}

\* the JSON objects the agents answer with: each case present or not, the average case null as well
Extractions ==
    {Entry("best_case", best) @@ Entry("worst_case", worst) @@ Entry("average_case", average) @@ Entry("loops", loops) :
        best \in {Absent} \cup {Present(c) : c \in CaseObjects},
        worst \in {Absent} \cup {Present(c) : c \in CaseObjects},
        average \in {Absent, Present(NoneRec)} \cup {Present(c) : c \in CaseObjects},
        loops \in {Absent, Present(<<>>), Present(<<[type |-> "FOR", variable |-> "j"], [type |-> "WHILE", nesting_level |-> 1]>>)}}

\* what RecursiveAgent.analyze and IterativeAgent.analyze return
AgentResults ==
    {[success |-> TRUE, extraction |-> e, iterations |-> 2] : e \in Extractions}
    \cup {[error |-> "Se excedió el máximo de iteraciones", iterations |-> 5]}

UnifiedCase(function, applies_to, explanation) ==
    [function |-> function, applies_to |-> applies_to, explanation |-> explanation]

ExtractedCase(case_type, condition, exists, function, explanation) ==
    [case_type |-> case_type, condition |-> condition, exists |-> exists, function |-> function,
     explanation |-> explanation]

LoopInfo(loop_type, loop_variable, bound_start, bound_end, nesting_level) ==
    [loop_type |-> loop_type, variable |-> loop_variable, bound_start |-> bound_start, bound_end |-> bound_end,
     nesting_level |-> nesting_level]

\* the cases are equal whenever best and worst are
cases_are_equal_without_average(best_func, worst_func, avg_func) == best_func = worst_func /\ best_func # ""

cases_are_equal(best_func, worst_func, avg_func) == (best_func = worst_func /\ worst_func = avg_func) /\ best_func # ""

\* the fields of the extraction that both _analyze_recursive and _analyze_iterative fill in the same way
extraction_cases(extracted) ==
    LET best_case_data == Get(extracted, "best_case", <<>>)
        worst_case_data == Get(extracted, "worst_case", <<>>)
        average_case_data == Get(extracted, "average_case", NoneRec)
        best_func == Get(best_case_data, "function", "")
        worst_func == Get(worst_case_data, "function", "")
        avg_func == IF ~Falsy(average_case_data) THEN Get(average_case_data, "function", "") ELSE worst_func
    IN  IF cases_are_equal(best_func, worst_func, avg_func)
        THEN [has_different_cases |-> FALSE,
              unified_case |-> UnifiedCase(best_func, <<"best", "worst", "average">>,
                                           Get(best_case_data, "description", "Los 3 casos son idénticos")),
              best_case |-> NoneRec,
              worst_case |-> NoneRec,
              average_case |-> NoneRec]
        ELSE [has_different_cases |-> TRUE,
              unified_case |-> NoneRec,
              best_case |-> ExtractedCase("best", Get(best_case_data, "condition", "unknown"),
                                          Get(best_case_data, "exists", TRUE), best_func,
                                          Get(best_case_data, "description", "")),
              worst_case |-> ExtractedCase("worst", Get(worst_case_data, "condition", "unknown"),
                                           Get(worst_case_data, "exists", TRUE), worst_func,
                                           Get(worst_case_data, "description", "")),
              average_case |-> IF ~Falsy(average_case_data) /\ avg_func # ""
                               THEN ExtractedCase("average", Get(average_case_data, "condition", "unknown"),
                                                  Get(average_case_data, "exists", TRUE), avg_func,
                                                  Get(average_case_data, "description", ""))
                               ELSE NoneRec]

_analyze_recursive(agent_result, subroutine_name) ==
    IF ~Get(agent_result, "success", FALSE)
    THEN [error |-> Get(agent_result, "error", "Error desconocido en RecursiveAgent"), algorithm_type |-> "RECURSIVE"]
    ELSE LET extracted == Get(agent_result, "extraction", <<>>)
         IN  [algorithm_name |-> subroutine_name,
              algorithm_type |-> "RECURSIVE",
              recursive_calls_count |-> Get(extracted, "recursive_calls_count", 1),
              base_case_condition |-> Get(extracted, "base_case_condition", "unknown")]
             @@ extraction_cases(extracted)

_analyze_iterative(agent_result, subroutine_name) ==
    IF ~Get(agent_result, "success", FALSE)
    THEN [error |-> Get(agent_result, "error", "Error desconocido en IterativeAgent"), algorithm_type |-> "ITERATIVE"]
    ELSE LET extracted == Get(agent_result, "extraction", <<>>)
             loops_data == Get(extracted, "loops", <<>>)
             loops == [k \in 1..Len(loops_data) |->
                          LoopInfo(Get(loops_data[k], "type", "FOR"), Get(loops_data[k], "variable", "i"),
                                   Get(loops_data[k], "start", "1"), Get(loops_data[k], "end", "n"),
                                   Get(loops_data[k], "nesting_level", 0))]
         IN  [algorithm_name |-> subroutine_name,
              algorithm_type |-> "ITERATIVE",
              loops |-> loops,
              max_nesting |-> Get(extracted, "max_nesting", Len(loops))]
             @@ extraction_cases(extracted)

\* a behaviour is one call of the orchestrator on what the agent returned
InitOrchestrator ==
    /\ text = ""
    /\ subroutine = NoneRec
    /\ param = None
    /\ called = "none"
    /\ result = NoneRec
    /\ tree = NoneRec
    /\ ast = NoneRec
    /\ shared_ast = <<>>
    /\ calls = <<>>
    /\ max_nesting = <<>>
    /\ agent = <<>>
    /\ extraction \in AgentResults
    /\ cache = <<>>
    /\ requests = <<>>

AnalyzeRecursive ==
    /\ called = "none"
    /\ result' = _analyze_recursive(extraction, "f")
    /\ called' = "_analyze_recursive"
    /\ UNCHANGED <<text, subroutine, param, tree, ast, others>>

AnalyzeIterative ==
    /\ called = "none"
    /\ result' = _analyze_iterative(extraction, "f")
    /\ called' = "_analyze_iterative"
    /\ UNCHANGED <<text, subroutine, param, tree, ast, others>>

NextOrchestrator ==
    \/ AnalyzeRecursive
    \/ AnalyzeIterative

SpecOrchestrator == InitOrchestrator /\ [][NextOrchestrator]_vars

(***************************************************************************)
(* Properties of the orchestrator, checked under SpecOrchestrator          *)
(***************************************************************************)
\* the function the extraction gives for a case: "" when the case or its function is missing
FunctionOf(extracted, case) == Get(Get(extracted, case, <<>>), "function", "")

\* the extraction has no average case: the key is missing, null or an empty object
AverageMissing(extracted) == Falsy(Get(extracted, "average_case", NoneRec))

\* the best, worst and average functions are equal and non-empty, a missing average counting as the worst
EqualAndNonEmpty(extracted) ==
    /\ FunctionOf(extracted, "best_case") # ""
    /\ FunctionOf(extracted, "best_case") = FunctionOf(extracted, "worst_case")
    /\ AverageMissing(extracted) \/ FunctionOf(extracted, "average_case") = FunctionOf(extracted, "worst_case")

\* C28: for every successful extraction of an agent, the result of the orchestrator has
\* has_different_cases = false, unified_case set and best_case, worst_case, average_case None exactly when
\* the best, worst and average functions are equal and non-empty (a missing average counts as equal to the
\* worst); otherwise has_different_cases = true, unified_case is None and best_case and worst_case are set.
\* unified_case is set if and only if has_different_cases is false.
C28_UnifiedExactlyWhenEqual ==
    (called \in {"_analyze_recursive", "_analyze_iterative"} /\ Get(extraction, "success", FALSE)) =>
        /\ "error" \notin DOMAIN result
        /\ IF EqualAndNonEmpty(extraction.extraction)
           THEN /\ ~result.has_different_cases
                /\ ~IsNone(result.unified_case)
                /\ IsNone(result.best_case) /\ IsNone(result.worst_case) /\ IsNone(result.average_case)
           ELSE /\ result.has_different_cases
                /\ IsNone(result.unified_case)
                /\ ~IsNone(result.best_case) /\ ~IsNone(result.worst_case)
        /\ ~IsNone(result.unified_case) <=> ~result.has_different_cases

\* _analyze_iterative has unified an extraction whose best and worst functions are equal and whose average
\* case is null
C28_Witness ==
    /\ called = "_analyze_iterative"
    /\ Get(extraction, "success", FALSE)
    /\ "average_case" \in DOMAIN extraction.extraction
    /\ IsNone(extraction.extraction.average_case)
    /\ FunctionOf(extraction.extraction, "best_case") = "T(n) = 2T(n/2) + O(n)"
    /\ ~result.has_different_cases
    /\ result.unified_case.function = "T(n) = 2T(n/2) + O(n)"
    /\ Len(result.loops) = 2

(***************************************************************************)
(* analyze_pseudocode_internal with the table algorithms_cache.  The       *)
(* endpoints are plain functions, so the requests of different clients run *)
(* in different threads; each call of the table is one step, and what a    *)
(* request computes between two calls belongs to the step of the call that *)
(* follows.                                                                *)
(***************************************************************************)
RequestThreads == {"r1", "r2"}

\* the requests one thread serves, one after the other
MaxRequests == 2

\* ' '.join(pseudocode.split()), from character p on: `started` once a word has been copied, `pending`
\* when whitespace has been met since
RECURSIVE join_split_from(_, _, _, _)
join_split_from(pseudocode, p, started, pending) ==
    IF p > Len(pseudocode) THEN ""
    ELSE IF IsSpace(Char(pseudocode, p)) THEN join_split_from(pseudocode, p + 1, started, started)
    ELSE (IF pending THEN " " ELSE "") \o Char(pseudocode, p) \o join_split_from(pseudocode, p + 1, TRUE, FALSE)

\* hashlib.sha256(...).hexdigest(): equal for equal texts only
sha256(normalized) == [sha256 |-> normalized]

\* generate_pseudocode_hash hashing the text as it is given
hash_of_text(pseudocode) == sha256(pseudocode)

generate_pseudocode_hash(pseudocode) == sha256(Lower(join_split_from(pseudocode, 1, FALSE, FALSE)))

\* the texts requested: two that differ in case and spacing only, and another one
Pseudocodes == {"f(n) begin end", " F(n)  BEGIN end", "g(n) begin end"}

\* the value the table gives to times_requested when a row is inserted without it
ColumnDefaults == {0, 1}

Row(id, pseudocode, times_requested, mermaid_diagram) ==
    [id |-> id, pseudocode_hash |-> generate_pseudocode_hash(pseudocode), pseudocode |-> pseudocode,
     times_requested |-> times_requested, mermaid_diagram |-> mermaid_diagram]

\* the table before the requests: empty, or with the row of an earlier analysis, stored with or without
\* its diagram
InitialCaches ==
    {<<>>, <<Row(1, "f(n) begin end", 1, None)>>, <<Row(1, "f(n) begin end", 3, "flowchart TD")>>}

\* .select("*").eq("pseudocode_hash", pseudocode_hash): the rows in the order of the table
RECURSIVE select_from(_, _, _)
select_from(rows, pseudocode_hash, i) ==
    IF i > Len(rows) THEN <<>>
    ELSE (IF rows[i].pseudocode_hash = pseudocode_hash THEN <<rows[i]>> ELSE <<>>)
         \o select_from(rows, pseudocode_hash, i + 1)

\* .update(values).eq("id", id)
update(rows, values, id) ==
    [i \in 1..Len(rows) |-> IF rows[i].id = id THEN values @@ rows[i] ELSE rows[i]]

NoRequest ==
    [pc |-> "idle", pseudocode |-> "", cached |-> NoneRec, parsed |-> FALSE, analysis |-> "none",
     inserted |-> FALSE, returned |-> "none", made |-> 0]

\* how the work on a text that is not in the table ends: the parser raises, the algorithm has no
\* subroutine, phase 1 answers with an error record, or phase 1 answers with an extraction
AnalysisOutcomes == {"syntax_error", "no_subroutines", "error_record", "extraction"}

InitRequests ==
    /\ text = ""
    /\ subroutine = NoneRec
    /\ param = None
    /\ called = "none"
    /\ result = NoneRec
    /\ tree = NoneRec
    /\ ast = NoneRec
    /\ shared_ast = <<>>
    /\ calls = <<>>
    /\ max_nesting = <<>>
    /\ agent = <<>>
    /\ extraction = <<>>
    /\ cache \in InitialCaches
    /\ requests = [r \in RequestThreads |-> NoRequest]

RequestsFrame == UNCHANGED <<text, subroutine, param, called, result, tree, ast, shared_ast, calls, max_nesting, agent, extraction>>

\* a request arrives: the hash is computed and the table is asked for the rows with it
SelectCached(r) ==
    /\ requests[r].pc \in {"idle", "done"}
    /\ requests[r].made < MaxRequests
    /\ \E pseudocode \in Pseudocodes :
        LET data == select_from(cache, generate_pseudocode_hash(pseudocode), 1)
        IN  requests' = [requests EXCEPT ![r] =
                [pc |-> IF Len(data) > 0 THEN "update" ELSE "analyse",
                 pseudocode |-> pseudocode,
                 cached |-> IF Len(data) > 0 THEN data[1] ELSE NoneRec,
                 parsed |-> FALSE, analysis |-> "none", inserted |-> FALSE, returned |-> "none",
                 made |-> requests[r].made + 1]]
    /\ UNCHANGED cache
    /\ RequestsFrame

\* the row was found: its counter is written back as the value read plus one
UpdateTimesRequested(r) ==
    /\ requests[r].pc = "update"
    /\ cache' = update(cache, [times_requested |-> requests[r].cached.times_requested + 1], requests[r].cached.id)
    /\ requests' = [requests EXCEPT ![r].pc = "serve"]
    /\ RequestsFrame

\* the diagram is generated and stored when the row read has none, and the cached result is returned
ServeCached(r) ==
    /\ requests[r].pc = "serve"
    /\ cache' = IF requests[r].cached.mermaid_diagram = None
                THEN update(cache, [mermaid_diagram |-> "flowchart TD"], requests[r].cached.id)
                ELSE cache
    /\ requests' = [requests EXCEPT ![r].pc = "done", ![r].returned = "from_cache"]
    /\ RequestsFrame

\* the text is not in the table: parsing, classification, phase 1, phase 2 and the diagram
Analyse(r) ==
    /\ requests[r].pc = "analyse"
    /\ \E outcome \in AnalysisOutcomes :
        requests' = [requests EXCEPT ![r] =
            [@ EXCEPT !.parsed = TRUE,
                      !.analysis = outcome,
                      !.pc = IF outcome = "extraction" THEN "insert" ELSE "done",
                      !.returned = IF outcome = "extraction" THEN "none"
                                   ELSE IF outcome = "syntax_error" THEN "raised" ELSE "analysed"]]
    /\ UNCHANGED cache
    /\ RequestsFrame

\* the row of the analysis is inserted and the result is returned
InsertRow(r) ==
    /\ requests[r].pc = "insert"
    /\ \E times_requested \in ColumnDefaults :
        cache' = Append(cache, Row(Len(cache) + 1, requests[r].pseudocode, times_requested, "flowchart TD"))
    /\ requests' = [requests EXCEPT ![r].pc = "done", ![r].inserted = TRUE, ![r].returned = "analysed"]
    /\ RequestsFrame

NextRequests ==
    \E r \in RequestThreads :
        \/ SelectCached(r)
        \/ UpdateTimesRequested(r)
        \/ ServeCached(r)
        \/ Analyse(r)
        \/ InsertRow(r)

SpecRequests == InitRequests /\ [][NextRequests]_vars

(***************************************************************************)
(* Properties of the cache, checked under SpecRequests                     *)
(***************************************************************************)
\* C29: every cache hit served raises times_requested of its row by exactly one, whatever other requests
\* do in between, so that k hits on one row raise it by k.
C29_EveryHitCountsOnce ==
    [][\A r \in RequestThreads :
          (requests[r].pc = "update" /\ requests'[r].pc = "serve") =>
              cache'[requests[r].cached.id].times_requested = cache[requests[r].cached.id].times_requested + 1]_vars

\* no two rows of the table have the same pseudocode_hash
OneRowPerHash ==
    \A i \in 1..Len(cache) : \A j \in 1..Len(cache) :
        cache[i].pseudocode_hash = cache[j].pseudocode_hash => i = j

\* C30: the table holds at most one row per pseudocode_hash; a request that finds a row for its hash
\* returns the cached result without parsing, analysing or inserting; and only a miss whose phase 1
\* gave no error record inserts a row.
C30_OneRowPerHash ==
    /\ OneRowPerHash
    /\ \A r \in RequestThreads :
        /\ ~IsNone(requests[r].cached) =>
            /\ ~requests[r].parsed /\ requests[r].analysis = "none" /\ ~requests[r].inserted
            /\ requests[r].pc = "done" => requests[r].returned = "from_cache"
        /\ requests[r].inserted => IsNone(requests[r].cached) /\ requests[r].analysis = "extraction"

====
